---- MODULE Spec2Model ----
(***************************************************************************)
(* Model of ts_dream_common: the mock DREAM server (MockDream), its        *)
(* command executor, telemetry loops and the client that drives it.        *)
(*                                                                         *)
(* The server is a single asyncio event loop.  A step of the model is the  *)
(* code a task runs between two suspension points; the callbacks that are  *)
(* ready to run are queued first-in first-out, as call_soon queues them.   *)
(* Sleeps are untimed: a sleeping task may be woken at any later moment.   *)
(* writer.drain() is taken not to suspend (the write buffer stays below    *)
(* its high-water mark), so a write is part of the step that issues it.    *)
(* The client that observes the responses runs in the same event loop, as  *)
(* in the repository's tests.                                              *)
(***************************************************************************)
EXTENDS Integers, Sequences, FiniteSets, TLC

\* ------------------------------------------------------------------ bounds

\* Number of lines the client sends in the protocol specification.
MaxCommands == 2
\* Number of lines the client sends in the roof specification.
MaxRoofCommands == 4
\* Number of lines the client sends in the telemetry specification.
MaxLoopCommands == 3
\* Number of times a telemetry loop's sleep elapses.
MaxTicks == 1
MaxWeatherCommands == 3
MaxIndexArgument == 3
MaxYields == 6
MaxCalls == 5

\* MAX_INDEX is (1 << 31) - 1 in index_generator.py; it is scaled down here
\* so that the generator of a command driver wraps within MaxCalls calls.
MAX_INDEX == 3

\* The device of the classifier sends at most MaxMessages messages.
MaxMessages == 3

\* At most MaxSessions clients connect, one after the other.
MaxSessions == 2

\* The sleeps of the poll loops of the client runner are counted up to
\* MaxPolls.
MaxPolls == 3

\* ------------------------------------------------------------------- enums

CommandResponse == [ACK |-> 1, LAST |-> 2, INVALID_JSON |-> 3, COMMAND_FAILED |-> 4]

RoofStatus == [CLOSED |-> 1, OPEN |-> 2, OPENING |-> 3, CLOSING |-> 4]

ServerState ==
  [INITIALIZING |-> 1, HIBERNATING |-> 2, COOLING_DOWN |-> 3, CALIBRATING |-> 4,
   READY |-> 5, OPEN |-> 6, OBSERVING |-> 7, MAINTENANCE |-> 8, SHUTTING_DOWN |-> 9]

ErrorCode == [OK |-> 1]

Device == [MASTER |-> 1, NORTH |-> 2, EAST |-> 3, SOUTH |-> 4, WEST |-> 5, ZENITH |-> 6]

\* ----------------------------------------------------------------- schemas

\* registry["command"]: the properties, all four required, no other allowed.
CommandProperties == {"command_id", "key", "parameters", "time_command_sent"}

\* A command schema that also knows the key "openHatch".
CommandKeysWithHatch ==
  {"resume", "openRoof", "closeRoof", "stop", "readyForData", "dataArchived",
   "setWeatherInfo", "openHatch"}

\* registry["command"]["properties"]["key"]["enum"].
CommandKeys ==
  {"resume", "openRoof", "closeRoof", "stop", "readyForData", "dataArchived",
   "setWeatherInfo"}

\* registry["weather_info"]: the properties with their JSON types, all required.
WeatherProperties ==
  [temperature |-> "number", humidity |-> "number", wind_speed |-> "number",
   wind_direction |-> "number", pressure |-> "number", rain |-> "number",
   cloudcover |-> "number", safe_observing_conditions |-> "boolean"]

\* A JSON scalar: its JSON type and its value (a boolean is 0 or 1).
JNumber(n) == [type |-> "number", val |-> n]
JBoolean(b) == [type |-> "boolean", val |-> IF b THEN 1 ELSE 0]

\* A command schema without "additionalProperties": false.
validate_command_required_only(line) ==
  /\ CommandProperties \subseteq line.fields
  /\ line.key \in CommandKeys

\* Draft7Validator(registry["command"]).validate(items) raises no error.
validate_command(line) ==
  /\ CommandProperties \subseteq line.fields
  /\ line.fields \subseteq CommandProperties
  /\ line.key \in CommandKeys

\* A weather schema that does not look at the types of the values.
validate_weather_info_untyped(weather_info) ==
  DOMAIN weather_info = DOMAIN WeatherProperties

\* Draft7Validator(registry["weather_info"]).validate(weather_info) raises no error.
validate_weather_info(weather_info) ==
  /\ DOMAIN weather_info = DOMAIN WeatherProperties
  /\ \A k \in DOMAIN weather_info : weather_info[k].type = WeatherProperties[k]

\* ------------------------------------------------------------ client lines

NoParameters == <<>>

\* A line that decodes to a JSON object with the four command properties.
CommandLine(key, parameters) ==
  [decodable |-> TRUE, fields |-> CommandProperties, key |-> key,
   parameters |-> parameters]

GoodWeather ==
  [temperature |-> JNumber(20), humidity |-> JNumber(50), wind_speed |-> JNumber(5),
   wind_direction |-> JNumber(180), pressure |-> JNumber(750), rain |-> JNumber(1),
   cloudcover |-> JNumber(30), safe_observing_conditions |-> JBoolean(TRUE)]

\* The misnamed keys of test_weather_info.
MisnamedWeather ==
  [temp |-> JNumber(20), hum |-> JNumber(50), wind_speed |-> JNumber(5),
   wind_dir |-> JNumber(180), pressure |-> JNumber(750), rain |-> JNumber(1),
   cloudcover |-> JNumber(30), safe_to_observe |-> JBoolean(TRUE)]

\* Other valid values, as of a second reading of the weather station.
OtherWeather ==
  [temperature |-> JNumber(21), humidity |-> JNumber(51), wind_speed |-> JNumber(6),
   wind_direction |-> JNumber(181), pressure |-> JNumber(751), rain |-> JNumber(2),
   cloudcover |-> JNumber(31), safe_observing_conditions |-> JBoolean(FALSE)]

\* A required field is missing.
WeatherWithoutHumidity ==
  [temperature |-> JNumber(22), wind_speed |-> JNumber(7),
   wind_direction |-> JNumber(182), pressure |-> JNumber(752), rain |-> JNumber(3),
   cloudcover |-> JNumber(32), safe_observing_conditions |-> JBoolean(TRUE)]

\* A field the schema does not know is present.
WeatherWithDewPoint ==
  [temperature |-> JNumber(23), humidity |-> JNumber(53), wind_speed |-> JNumber(8),
   wind_direction |-> JNumber(183), pressure |-> JNumber(753), rain |-> JNumber(4),
   cloudcover |-> JNumber(33), safe_observing_conditions |-> JBoolean(TRUE),
   dew_point |-> JNumber(9)]

\* A boolean where a number is required, a number where a boolean is.
WeatherWithBooleanRain ==
  [temperature |-> JNumber(24), humidity |-> JNumber(54), wind_speed |-> JNumber(9),
   wind_direction |-> JNumber(184), pressure |-> JNumber(754), rain |-> JBoolean(TRUE),
   cloudcover |-> JNumber(34), safe_observing_conditions |-> JBoolean(TRUE)]

WeatherWithNumberSafe ==
  [temperature |-> JNumber(25), humidity |-> JNumber(55), wind_speed |-> JNumber(10),
   wind_direction |-> JNumber(185), pressure |-> JNumber(755), rain |-> JNumber(5),
   cloudcover |-> JNumber(35), safe_observing_conditions |-> JNumber(1)]

\* The lines a client may send.
Lines ==
  << CommandLine("resume", NoParameters),
     CommandLine("openRoof", NoParameters),
     CommandLine("closeRoof", NoParameters),
     CommandLine("stop", NoParameters),
     CommandLine("readyForData", [ready |-> TRUE]),
     CommandLine("readyForData", [ready |-> FALSE]),
     CommandLine("dataArchived", NoParameters),
     CommandLine("setWeatherInfo", [weather_info |-> GoodWeather]),
     CommandLine("setWeatherInfo", [weather_info |-> MisnamedWeather]),
     \* passes the command schema, but resume() takes no argument
     CommandLine("resume", [speed |-> JNumber(1)]),
     \* "parameters" is missing
     [decodable |-> TRUE, fields |-> CommandProperties \ {"parameters"},
      key |-> "resume", parameters |-> NoParameters],
     \* the "openHatch" command does not exist
     CommandLine("openHatch", NoParameters),
     \* an unknown field is present
     [decodable |-> TRUE, fields |-> CommandProperties \cup {"priority"},
      key |-> "resume", parameters |-> NoParameters],
     \* a JSON object without a command_id
     [decodable |-> TRUE, fields |-> CommandProperties \ {"command_id"},
      key |-> "resume", parameters |-> NoParameters],
     \* not JSON at all
     [decodable |-> FALSE, fields |-> {}, key |-> "", parameters |-> NoParameters],
     CommandLine("setWeatherInfo", [weather_info |-> OtherWeather]),
     CommandLine("setWeatherInfo", [weather_info |-> WeatherWithoutHumidity]),
     CommandLine("setWeatherInfo", [weather_info |-> WeatherWithDewPoint]),
     CommandLine("setWeatherInfo", [weather_info |-> WeatherWithBooleanRain]),
     CommandLine("setWeatherInfo", [weather_info |-> WeatherWithNumberSafe]) >>

ProtocolLines == 1 .. 15
WeatherLines == {2, 8, 9, 16, 17, 18, 19, 20}
RoofLines == {2, 3}
LoopLines == {1, 4, 5, 6}
StatusLines == {1, 2, 3}

\* ------------------------------------------------------------------- state

VARIABLES
  dream,           \* the attributes of the MockDream object
  read_loop_task,  \* "future", "created", "reading", "woken" or "done"
  accepted,        \* a client has connected: reader and writer are set
  reader_buffer,   \* the command_ids of the lines buffered in the StreamReader
  reader_eof,      \* the client has closed its end of the stream
  writer_closing,  \* the server has closed the StreamWriter
  cmds,            \* the lines the client has sent; cmds[c] has command_id c
  pc,              \* pc[c]: where the task executing line c is
  loop,            \* loop[c]: the telemetry task that command c created
  ready_queue,     \* the event loop's queue of callbacks that are ready to run
  written,         \* the messages written to the client's stream, in order
  nobs,            \* how many of them the client has read
  ticks,           \* how many times a telemetry loop's sleep has elapsed
  generator,       \* the index generator object of a command driver
  yielded,         \* the values the generator has yielded, in order
  client,          \* the command driver: a MockDreamClient
  runner,          \* the controller: a MockDreamClientRunner
  session          \* the client served: its number, first message and first line

vars ==
  << dream, read_loop_task, accepted, reader_buffer, reader_eof, writer_closing,
     cmds, pc, loop, ready_queue, written, nobs, ticks, generator, yielded, client,
     runner, session >>

\* The command driver and its index generator.
Driver == << generator, yielded, client >>

\* OneClientServer.connected: reader and writer exist, the reader is not at
\* end of stream and the writer is not closing.
connected ==
  /\ accepted
  /\ ~(reader_eof /\ reader_buffer = <<>>)
  /\ ~writer_closing

\* MasterServerStatus.__init__
MasterServerStatus ==
  [device |-> Device.MASTER, state |-> ServerState.INITIALIZING, start_time |-> 0,
   stop_time |-> 0, error_code |-> ErrorCode.OK, rain_sensor |-> TRUE,
   roof_status |-> RoofStatus.CLOSED]

\* WeatherInfo.__init__
WeatherInfo ==
  [temperature |-> 0, humidity |-> 0, wind_speed |-> 0, wind_direction |-> 0,
   pressure |-> 0, rain |-> 0, cloudcover |-> 0, safe_observing_conditions |-> FALSE]

\* A task handle.  task = 0 is the plain asyncio.Future() of __init__, whose
\* state is in future; task = c is the Task that command c created, whose
\* state is loop[c].
Future == [task |-> 0, future |-> "pending"]
Task(c) == [task |-> c, future |-> "task"]

CommandTask(c) == [kind |-> "command", id |-> c]
LoopTask(c) == [kind |-> "loop", id |-> c]
ReadLoopTask == [kind |-> "read_loop", id |-> 0]
ClientTask == [kind |-> "client", id |-> 0]

\* MockDream.__init__
Init ==
  /\ dream = [master_server_status |-> MasterServerStatus,
              weather_info |-> WeatherInfo,
              client_ready_for_data |-> FALSE,
              status_task |-> Future,
              new_data_products_task |-> Future]
  /\ read_loop_task = "future"
  /\ accepted = FALSE
  /\ reader_buffer = <<>>
  /\ reader_eof = FALSE
  /\ writer_closing = FALSE
  /\ cmds = <<>>
  /\ pc = <<>>
  /\ loop = <<>>
  /\ ready_queue = <<>>
  /\ written = <<>>
  /\ nobs = 0
  /\ ticks = 0
  /\ generator = [state |-> "none"]
  /\ yielded = <<>>
  /\ client = [state |-> "none"]
  /\ runner = [state |-> "none"]
  /\ session = [number |-> 1, first |-> 1, sent |-> 1]


\* -------------------------------------------------------------- event loop

\* What a step of a task works on: the MockDream object, the tasks, the
\* ready queue, the client's stream and its writer.  outcome is how a handler ended:
\* "returned", "RuntimeError", "TypeError", "KeyError", or "sleep" when it awaits
\* asyncio.sleep.
Machine ==
  [dream |-> dream, read_loop_task |-> read_loop_task, pc |-> pc, loop |-> loop,
   ready_queue |-> ready_queue, written |-> written,
   writer_closing |-> writer_closing, outcome |-> "returned"]

\* The first callback of the ready queue is t; run it.
Runs(t) == ready_queue # <<>> /\ Head(ready_queue) = t

\* The task of command c ends by returning.
return(m, c) == [m EXCEPT !.pc[c] = "done"]

\* The task of command c ends with an exception nobody handles.
raise(m, c) == [m EXCEPT !.pc[c] = "raised"]

\* asyncio.create_task(coro) for the telemetry loop of command c: the first
\* step of the new task is queued.
create_task(m, c) ==
  [m EXCEPT !.loop[c] = "queued", !.ready_queue = Append(@, LoopTask(c))]

\* Task.cancel() and Future.cancel().  A plain Future is done at once.  A
\* Task that sleeps is woken to receive CancelledError; a Task that is
\* queued receives it when it runs; until then it is not done.
cancel(m, handle) ==
  IF handle.task = 0 THEN m
  ELSE CASE m.loop[handle.task] = "sleeping" ->
              [m EXCEPT !.loop[handle.task] = "cancelling",
                        !.ready_queue = Append(@, LoopTask(handle.task))]
         [] m.loop[handle.task] = "queued" ->
              [m EXCEPT !.loop[handle.task] = "cancelling"]
         [] OTHER -> m

\* The handle after cancel().
cancelled(handle) ==
  IF handle.task = 0 THEN [handle EXCEPT !.future = "cancelled"] ELSE handle

\* Future.done() and Task.done().
done(lp, handle) ==
  IF handle.task = 0 THEN handle.future = "cancelled" ELSE lp[handle.task] = "done"

\* ---------------------------------------------------------------- messages

Response(command_id, command_response) ==
  [command_id |-> command_id, command_response |-> command_response]

\* MasterServerStatus.asdict
asdict(master_server_status) == master_server_status

\* The batch new_data_products builds from num_data_products products.
NewDataProduct(i) == [name |-> i, location |-> "file:///", timestamp |-> 1]

\* A batch that leaves out the last product.
NewDataProductsButLast(num_data_products) ==
  LET metadata == [i \in 1 .. (num_data_products - 1) |-> NewDataProduct(i - 1)]
  IN  [amount |-> Len(metadata), metadata |-> metadata]

NewDataProducts(num_data_products) ==
  LET metadata == [i \in 1 .. num_data_products |-> NewDataProduct(i - 1)]
  IN  [amount |-> Len(metadata), metadata |-> metadata]

\* random.randint(1, 6): the least and the greatest batch.
DataProductCounts == {1, 6}

IsResponse(msg) == "command_id" \in DOMAIN msg
IsStatus(msg) == "device" \in DOMAIN msg
IsDataProducts(msg) == "metadata" \in DOMAIN msg

\* MockDream.write: the message goes to the stream if a client is connected
\* and is dropped otherwise.
write(m, data) ==
  IF connected THEN [m EXCEPT !.written = Append(@, data)] ELSE m

\* ---------------------------------------------------------------- handlers

resume(m, c) ==
  [create_task(m, c) EXCEPT !.dream.status_task = Task(c), !.outcome = "returned"]

\* An open_roof that does not look at the status of the roof.
open_roof_unchecked(m) ==
  [m EXCEPT !.dream.master_server_status.roof_status = RoofStatus.OPENING,
            !.outcome = "sleep"]

\* A roof that is open as soon as it is asked to open.
open_roof_at_once(m) ==
  IF m.dream.master_server_status.roof_status = RoofStatus.CLOSED
  THEN [m EXCEPT !.dream.master_server_status.roof_status = RoofStatus.OPEN,
                 !.outcome = "sleep"]
  ELSE [m EXCEPT !.outcome = "RuntimeError"]

open_roof(m) ==
  IF m.dream.master_server_status.roof_status = RoofStatus.CLOSED
  THEN [m EXCEPT !.dream.master_server_status.roof_status = RoofStatus.OPENING,
                 !.outcome = "sleep"]
  ELSE [m EXCEPT !.outcome = "RuntimeError"]

\* A roof that is closed again when it has opened.
open_roof_after_sleep_closed(m) ==
  [m EXCEPT !.dream.master_server_status.roof_status = RoofStatus.CLOSED,
            !.outcome = "returned"]

open_roof_after_sleep(m) ==
  [m EXCEPT !.dream.master_server_status.roof_status = RoofStatus.OPEN,
            !.outcome = "returned"]

\* A roof that starts to close whatever its status.
close_roof_unchecked(m) ==
  [m EXCEPT !.dream.master_server_status.roof_status = RoofStatus.CLOSING,
            !.outcome = "sleep"]

\* A roof that starts to close unless it is closed.
close_roof_unless_closed(m) ==
  IF m.dream.master_server_status.roof_status # RoofStatus.CLOSED
  THEN [m EXCEPT !.dream.master_server_status.roof_status = RoofStatus.CLOSING,
                 !.outcome = "sleep"]
  ELSE [m EXCEPT !.outcome = "RuntimeError"]

close_roof(m) ==
  IF m.dream.master_server_status.roof_status = RoofStatus.OPEN
  THEN [m EXCEPT !.dream.master_server_status.roof_status = RoofStatus.CLOSING,
                 !.outcome = "sleep"]
  ELSE [m EXCEPT !.outcome = "RuntimeError"]

\* A roof that is back open when it has closed.
close_roof_after_sleep_open(m) ==
  [m EXCEPT !.dream.master_server_status.roof_status = RoofStatus.OPEN,
            !.outcome = "returned"]

close_roof_after_sleep(m) ==
  [m EXCEPT !.dream.master_server_status.roof_status = RoofStatus.CLOSED,
            !.outcome = "returned"]

stop(m) == [m EXCEPT !.outcome = "sleep"]

\* A stop that leaves the status loop running.
stop_after_sleep_keeps_task(m) == [m EXCEPT !.outcome = "returned"]

stop_after_sleep(m) ==
  [cancel(m, m.dream.status_task) EXCEPT
     !.dream.status_task = cancelled(@), !.outcome = "returned"]

\* A readyForData that records the flag and never cancels the loop.
set_ready_for_data_keeps_task(m, c, ready) ==
  IF ready
  THEN [create_task(m, c) EXCEPT !.dream.client_ready_for_data = ready,
                                 !.dream.new_data_products_task = Task(c),
                                 !.outcome = "returned"]
  ELSE [m EXCEPT !.dream.client_ready_for_data = ready, !.outcome = "returned"]

set_ready_for_data(m, c, ready) ==
  IF ready
  THEN [create_task(m, c) EXCEPT !.dream.client_ready_for_data = ready,
                                 !.dream.new_data_products_task = Task(c),
                                 !.outcome = "returned"]
  ELSE [cancel(m, m.dream.new_data_products_task) EXCEPT
          !.dream.client_ready_for_data = ready,
          !.dream.new_data_products_task = cancelled(@),
          !.outcome = "returned"]

set_data_archived(m) == [m EXCEPT !.outcome = "returned"]

\* The Python value json.loads gives for a JSON scalar.
FromJson(v) == IF v.type = "boolean" THEN v.val = 1 ELSE v.val

\* A handler that stores the numbers and forgets the boolean.
set_weather_info_numbers_only(m, weather_info) ==
  IF ~validate_weather_info(weather_info)
  THEN [m EXCEPT !.outcome = "RuntimeError"]
  ELSE [m EXCEPT
          !.dream.weather_info =
             [key \in DOMAIN @ |->
                IF key \in DOMAIN weather_info /\ weather_info[key].type = "number"
                THEN FromJson(weather_info[key])
                ELSE @[key]],
          !.outcome = "returned"]

set_weather_info(m, weather_info) ==
  IF ~validate_weather_info(weather_info)
  THEN [m EXCEPT !.outcome = "RuntimeError"]
  ELSE [m EXCEPT
          !.dream.weather_info =
             [key \in DOMAIN @ |->
                IF key \in DOMAIN weather_info THEN FromJson(weather_info[key])
                ELSE @[key]],
          !.outcome = "returned"]

\* The keys of MockDream.dispatch_dict.
dispatch_dict ==
  {"resume", "openRoof", "closeRoof", "stop", "readyForData", "dataArchived",
   "setWeatherInfo"}

\* The names of the arguments of the handler of each key of dispatch_dict.
ParameterNames ==
  [resume |-> {}, openRoof |-> {}, closeRoof |-> {}, stop |-> {},
   readyForData |-> {"ready"}, dataArchived |-> {},
   setWeatherInfo |-> {"weather_info"}]

\* func(**kwargs) binds: kwargs names exactly the handler's arguments.
\* Otherwise the call raises TypeError.
binds(key, kwargs) == DOMAIN kwargs = ParameterNames[key]

\* func = self.dispatch_dict[key]; await func(**kwargs), up to the handler's
\* first suspension point.  A key that dispatch_dict does not have raises
\* KeyError.
dispatch(m, c) ==
  LET key == cmds[c].key
      kwargs == cmds[c].parameters
  IN  IF key \notin dispatch_dict THEN [m EXCEPT !.outcome = "KeyError"]
      ELSE IF ~binds(key, kwargs) THEN [m EXCEPT !.outcome = "TypeError"]
      ELSE CASE key = "resume" -> resume(m, c)
             [] key = "openRoof" -> open_roof(m)
             [] key = "closeRoof" -> close_roof(m)
             [] key = "stop" -> stop(m)
             [] key = "readyForData" -> set_ready_for_data(m, c, kwargs.ready)
             [] key = "dataArchived" -> set_data_archived(m)
             [] key = "setWeatherInfo" -> set_weather_info(m, kwargs.weather_info)

\* The handler of command c from the end of its asyncio.sleep on.
after_sleep(m, c) ==
  LET key == cmds[c].key
  IN  CASE key = "openRoof" -> open_roof_after_sleep(m)
        [] key = "closeRoof" -> close_roof_after_sleep(m)
        [] key = "stop" -> stop_after_sleep(m)

\* --------------------------------------------------------- command executor

\* A disconnect that also ends the handlers that sleep.
disconnect_ending_handlers(m) ==
  [m EXCEPT !.read_loop_task = "done", !.writer_closing = TRUE,
            !.pc = [c \in DOMAIN m.pc |->
                      IF m.pc[c] = "sleeping" THEN "done" ELSE m.pc[c]]]

\* MockDream.disconnect: cancel the read loop and close the client.
disconnect(m) == [m EXCEPT !.read_loop_task = "done", !.writer_closing = TRUE]

\* An executor that drops the client when it rejects a line.
reject_and_disconnect(m, c) ==
  disconnect(return(write(m, Response(c, CommandResponse.INVALID_JSON)), c))

\* Validation failed: one INVALID_JSON response, and the task returns.
reject(m, c) ==
  return(write(m, Response(c, CommandResponse.INVALID_JSON)), c)

\* An executor that forgets the ACK.
acknowledge_omitted(m, c) == m

\* The ACK that acknowledges the reception of the command.
acknowledge(m, c) == write(m, Response(c, CommandResponse.ACK))

\* What execute_and_monitor_command does with the way the handler ended.
monitor(m, c) ==
  CASE m.outcome = "sleep" -> [m EXCEPT !.pc[c] = "sleeping"]
    [] m.outcome = "RuntimeError" ->
         return(write(m, Response(c, CommandResponse.COMMAND_FAILED)), c)
    [] m.outcome \in {"TypeError", "KeyError"} -> raise(m, c)
    [] m.outcome = "returned" ->
         return(write(m, Response(c, CommandResponse.LAST)), c)

\* An executor that runs the handler first, and acknowledges the command
\* only if the handler has not gone to sleep.
execute_and_monitor_command_handler_first(m, c) ==
  LET line == cmds[c]
      handled == monitor(dispatch(m, c), c)
  IN  IF ~line.decodable THEN raise(m, c)
      ELSE IF "command_id" \notin line.fields THEN raise(m, c)
      ELSE IF ~validate_command(line) THEN reject(m, c)
      ELSE IF handled.pc[c] = "sleeping" THEN handled
      ELSE monitor(dispatch(acknowledge(m, c), c), c)

\* execute_and_monitor_command(line) up to its first suspension point.
execute_and_monitor_command(m, c) ==
  LET line == cmds[c]
  IN  IF ~line.decodable THEN raise(m, c)
      ELSE IF "command_id" \notin line.fields THEN raise(m, c)
      ELSE IF ~validate_command(line) THEN reject(m, c)
      ELSE monitor(dispatch(acknowledge(m, c), c), c)

\* The step leaves the machine as m.
Becomes(m) ==
  /\ dream' = m.dream
  /\ read_loop_task' = m.read_loop_task
  /\ writer_closing' = m.writer_closing
  /\ pc' = m.pc
  /\ loop' = m.loop
  /\ ready_queue' = m.ready_queue
  /\ written' = m.written

Reader == << accepted, reader_buffer, reader_eof >>

\* The task of command c runs for the first time.
ExecuteCommand(c) ==
  /\ Runs(CommandTask(c))
  /\ pc[c] = "created"
  /\ Becomes(execute_and_monitor_command([Machine EXCEPT !.ready_queue = Tail(@)], c))
  /\ UNCHANGED << Reader, cmds, nobs, ticks, Driver, runner, session >>

\* The asyncio.sleep of the handler of command c elapses.
SleepElapses(c) ==
  /\ pc[c] = "sleeping"
  /\ pc' = [pc EXCEPT ![c] = "woken"]
  /\ ready_queue' = Append(ready_queue, CommandTask(c))
  /\ UNCHANGED << dream, read_loop_task, Reader, writer_closing, cmds, loop, written,
                  nobs, ticks, Driver, runner, session >>

\* The task of command c runs again after its sleep.
ResumeCommand(c) ==
  /\ Runs(CommandTask(c))
  /\ pc[c] = "woken"
  /\ Becomes(monitor(after_sleep([Machine EXCEPT !.ready_queue = Tail(@)], c), c))
  /\ UNCHANGED << Reader, cmds, nobs, ticks, Driver, runner, session >>

\* ---------------------------------------------------------- telemetry loops

\* A status loop that reports the status of the construction.
status_of_construction(m, c) ==
  [write(m, asdict(MasterServerStatus)) EXCEPT !.loop[c] = "sleeping"]

\* One round of MockDream.status: write the master status, then sleep.
status(m, c) ==
  [write(m, asdict(m.dream.master_server_status)) EXCEPT !.loop[c] = "sleeping"]

\* One round of MockDream.new_data_products: write a batch, then sleep.
new_data_products(m, c, num_data_products) ==
  [write(m, NewDataProducts(num_data_products)) EXCEPT !.loop[c] = "sleeping"]

\* The telemetry task that command c created runs: it ends if it was
\* cancelled, and does one round otherwise.
RunLoop(c) ==
  /\ Runs(LoopTask(c))
  /\ LET m == [Machine EXCEPT !.ready_queue = Tail(@)]
     IN  IF loop[c] = "cancelling" THEN Becomes([m EXCEPT !.loop[c] = "done"])
         ELSE IF cmds[c].key = "resume" THEN Becomes(status(m, c))
         ELSE \E n \in DataProductCounts : Becomes(new_data_products(m, c, n))
  /\ UNCHANGED << Reader, cmds, nobs, ticks, Driver, runner, session >>

\* The asyncio.sleep of a telemetry loop elapses.
LoopSleepElapses(c) ==
  /\ loop[c] = "sleeping"
  /\ ticks < MaxTicks
  /\ ticks' = ticks + 1
  /\ loop' = [loop EXCEPT ![c] = "queued"]
  /\ ready_queue' = Append(ready_queue, LoopTask(c))
  /\ UNCHANGED << dream, read_loop_task, Reader, writer_closing, cmds, pc, written, nobs,
                  Driver, runner, session >>

\* ---------------------------------------------------------------- read loop

\* Data or end of stream arrives: a read loop waiting in readuntil is woken.
Arrival ==
  IF read_loop_task = "reading"
  THEN read_loop_task' = "woken" /\ ready_queue' = Append(ready_queue, ReadLoopTask)
  ELSE UNCHANGED << read_loop_task, ready_queue >>

\* A read loop that holds back the tasks of the lines it reads while the
\* handler of an earlier command is in its delay.
read_loop_holds_back ==
  /\ Runs(ReadLoopTask)
  /\ pc' = [c \in DOMAIN pc |->
              IF \E i \in DOMAIN reader_buffer : reader_buffer[i] = c
              THEN "created" ELSE pc[c]]
  /\ ready_queue' =
       IF \E c \in DOMAIN pc : pc[c] \in {"sleeping", "woken"}
       THEN Tail(ready_queue)
       ELSE Tail(ready_queue) \o
              [i \in DOMAIN reader_buffer |-> CommandTask(reader_buffer[i])]
  /\ reader_buffer' = <<>>
  /\ read_loop_task' = IF reader_eof THEN "done" ELSE "reading"
  /\ UNCHANGED << dream, loop, written, writer_closing >>
  /\ UNCHANGED << accepted, reader_eof, cmds, nobs, ticks, Driver, runner, session >>

\* MockDream.read_loop runs.  Every buffered line becomes a task; then the
\* loop waits for the next line, or ends because the reader is at end of
\* stream.  A readuntil that is woken by the end of stream with no line raises
\* IncompleteReadError, and the loop disconnects.
read_loop ==
  /\ Runs(ReadLoopTask)
  /\ IF read_loop_task = "woken" /\ reader_buffer = <<>>
     THEN /\ Becomes(disconnect([Machine EXCEPT !.ready_queue = Tail(@)]))
          /\ UNCHANGED reader_buffer
     ELSE /\ pc' = [c \in DOMAIN pc |->
                      IF \E i \in DOMAIN reader_buffer : reader_buffer[i] = c
                      THEN "created" ELSE pc[c]]
          /\ ready_queue' = Tail(ready_queue) \o
                        [i \in DOMAIN reader_buffer |-> CommandTask(reader_buffer[i])]
          /\ reader_buffer' = <<>>
          /\ read_loop_task' = IF reader_eof THEN "done" ELSE "reading"
          /\ UNCHANGED << dream, loop, written, writer_closing >>
  /\ UNCHANGED << accepted, reader_eof, cmds, nobs, ticks, Driver, runner, session >>

\* ------------------------------------------------------------------- client

\* A client connects; connect_callback starts the read loop.
connect_callback ==
  /\ ~accepted
  /\ accepted' = TRUE
  /\ read_loop_task' = "created"
  /\ ready_queue' = Append(ready_queue, ReadLoopTask)
  /\ UNCHANGED << dream, reader_buffer, reader_eof, writer_closing, cmds, pc,
                  loop, written, nobs, ticks, Driver, runner, session >>

\* The client is gone and the session is over; OneClientServer accepts the
\* next client: reader and writer are the new client's, and connect_callback
\* starts a read loop.  The messages from written[session.first] on go to
\* the new client, and the lines from cmds[session.sent] on are its lines.
NextClientConnects ==
  /\ accepted
  /\ ~connected
  /\ read_loop_task = "done"
  /\ session.number < MaxSessions
  /\ session' = [number |-> session.number + 1, first |-> Len(written) + 1,
                 sent |-> Len(cmds) + 1]
  /\ reader_buffer' = <<>>
  /\ reader_eof' = FALSE
  /\ writer_closing' = FALSE
  /\ read_loop_task' = "created"
  /\ ready_queue' = Append(ready_queue, ReadLoopTask)
  /\ UNCHANGED << dream, accepted, cmds, pc, loop, written, nobs, ticks, Driver,
                  runner >>

\* The client sends one of the lines of alphabet, at most max lines in all.
ClientSends(alphabet, max) ==
  /\ accepted
  /\ ~reader_eof
  /\ Len(cmds) < max
  /\ \E i \in alphabet : cmds' = Append(cmds, Lines[i])
  /\ pc' = Append(pc, "buffered")
  /\ loop' = Append(loop, "none")
  /\ reader_buffer' = Append(reader_buffer, Len(cmds) + 1)
  /\ Arrival
  /\ UNCHANGED << dream, accepted, reader_eof, writer_closing, written, nobs, ticks,
                  Driver, runner, session >>

\* The client closes the stream.
ClientCloses ==
  /\ accepted
  /\ ~reader_eof
  /\ reader_eof' = TRUE
  /\ Arrival
  /\ UNCHANGED << dream, accepted, reader_buffer, writer_closing, cmds, pc,
                  loop, written, nobs, ticks, Driver, runner, session >>

\* A message the client has not read reaches it: its read is queued.
ClientWakes ==
  /\ accepted
  /\ ~reader_eof
  /\ nobs < Len(written)
  /\ \A i \in DOMAIN ready_queue : ready_queue[i] # ClientTask
  /\ ready_queue' = Append(ready_queue, ClientTask)
  /\ UNCHANGED << dream, read_loop_task, Reader, writer_closing, cmds, pc, loop, written,
                  nobs, ticks, Driver, runner, session >>

\* The client reads the next message.
ClientReads ==
  /\ Runs(ClientTask)
  /\ ready_queue' = Tail(ready_queue)
  /\ nobs' = IF reader_eof THEN nobs ELSE nobs + 1
  /\ UNCHANGED << dream, read_loop_task, Reader, writer_closing, cmds, pc, loop, written,
                  ticks, Driver, runner, session >>

\* ---------------------------------------------------------- index generator

\* An optional argument: None, or a value.
None == <<>>
Some(i) == << i >>

\* An index generator that takes any arguments.
index_generator_unchecked(imin, imax, i0) ==
  LET i == IF i0 = None THEN imin ELSE i0[1]
  IN  [state |-> "generator", imin |-> imin, imax |-> imax, i0 |-> i, index |-> i - 1]

\* index_generator(imin, imax, i0): the argument checks, and the generator
\* object that is returned when they pass.  index is the local variable of
\* index_impl, which is set when the generator runs for the first time.
index_generator(imin, imax, i0) ==
  LET i == IF i0 = None THEN imin ELSE i0[1]
  IN  IF imax <= imin THEN [state |-> "ValueError", imin |-> imin, imax |-> imax, i0 |-> i]
      ELSE IF ~(imin <= i /\ i <= imax)
      THEN [state |-> "ValueError", imin |-> imin, imax |-> imax, i0 |-> i]
      ELSE [state |-> "generator", imin |-> imin, imax |-> imax, i0 |-> i,
            index |-> i - 1]

\* A generator that wraps to zero.
index_impl_wraps_to_zero(g) ==
  LET index == g.index + 1
  IN  [g EXCEPT !.index = IF index > g.imax THEN 0 ELSE index]

\* One round of the loop of index_impl, up to its yield.
index_impl(g) ==
  LET index == g.index + 1
  IN  [g EXCEPT !.index = IF index > g.imax THEN g.imin ELSE index]

\* The arguments tried: negative, zero and positive.
IndexArguments == (0 - 1) .. MaxIndexArgument

\* A caller constructs an index generator.
NewIndexGenerator ==
  /\ generator.state = "none"
  /\ client.state = "none"
  /\ \E imin, imax \in IndexArguments :
       \E i0 \in {None} \cup {Some(i) : i \in IndexArguments} :
         generator' = index_generator(imin, imax, i0)
  /\ UNCHANGED << dream, read_loop_task, Reader, writer_closing, cmds, pc, loop,
                  ready_queue, written, nobs, ticks, yielded, client, runner, session >>

\* next(generator)
NextIndex ==
  /\ generator.state = "generator"
  /\ client.state = "none"
  /\ Len(yielded) < MaxYields
  /\ generator' = index_impl(generator)
  /\ yielded' = Append(yielded, generator'.index)
  /\ UNCHANGED << dream, read_loop_task, Reader, writer_closing, cmds, pc, loop,
                  ready_queue, written, nobs, ticks, client, runner, session >>

\* ----------------------------------------------------------- command driver

\* MockDreamClient.__init__.  commands are the calls of run_command, each
\* with its command_id and where it is: "waiting" for the stream lock, in
\* "drain", or ended as "written", "ConnectionError" or "TimeoutError".
\* stream_lock is the call that holds the lock, 0 if none; outbound are the
\* command_ids of the lines written to the stream.
MockDreamClient ==
  /\ client.state = "none"
  /\ generator.state = "none"
  /\ generator' = index_generator(1, MAX_INDEX, None)
  /\ client' = [state |-> "client", reader |-> "None", writer |-> "None",
                stream_lock |-> 0, commands |-> <<>>, outbound |-> <<>>]
  /\ UNCHANGED << dream, read_loop_task, Reader, writer_closing, cmds, pc, loop,
                  ready_queue, written, nobs, ticks, yielded, runner, session >>

\* MockDreamClient.connected
client_connected(cl) ==
  ~(cl.reader = "None" \/ cl.writer = "None" \/ cl.reader = "at_eof"
      \/ cl.writer = "is_closing")

\* MockDreamClient.connect
Connects ==
  /\ client.state = "client"
  /\ ~client_connected(client)
  /\ client' = [client EXCEPT !.reader = "open", !.writer = "open"]
  /\ UNCHANGED << dream, read_loop_task, Reader, writer_closing, cmds, pc, loop,
                  ready_queue, written, nobs, ticks, generator, yielded, runner,
                  session >>

\* MockDreamClient.disconnect closes the writer.
Disconnects ==
  /\ client.state = "client"
  /\ client_connected(client)
  /\ client' = [client EXCEPT !.writer = "is_closing"]
  /\ UNCHANGED << dream, read_loop_task, Reader, writer_closing, cmds, pc, loop,
                  ready_queue, written, nobs, ticks, generator, yielded, runner,
                  session >>

\* The server closes the stream: the reader is at end of stream.
ReaderAtEof ==
  /\ client.state = "client"
  /\ client.reader = "open"
  /\ client' = [client EXCEPT !.reader = "at_eof"]
  /\ UNCHANGED << dream, read_loop_task, Reader, writer_closing, cmds, pc, loop,
                  ready_queue, written, nobs, ticks, generator, yielded, runner,
                  session >>

\* A driver that writes without looking at the connection.
basic_run_command_unchecked(cl, k, suspends) ==
  [cl EXCEPT !.outbound = Append(@, cl.commands[k].command_id),
             !.commands[k].outcome = IF suspends THEN "drain" ELSE "written",
             !.stream_lock = IF suspends THEN k ELSE 0]

\* MockDreamClient._basic_run_command of call k, from the moment it has the
\* stream lock: ConnectionError if not connected; else the line is written,
\* and drain either returns at once or suspends the call, which then keeps
\* the lock.
basic_run_command(cl, k, suspends) ==
  IF ~client_connected(cl)
  THEN [cl EXCEPT !.commands[k].outcome = "ConnectionError", !.stream_lock = 0]
  ELSE [cl EXCEPT !.outbound = Append(@, cl.commands[k].command_id),
                  !.commands[k].outcome = IF suspends THEN "drain" ELSE "written",
                  !.stream_lock = IF suspends THEN k ELSE 0]

\* asyncio.Lock: the lock is free, and no earlier call waits for it.
LockIsFree(cl) ==
  /\ cl.stream_lock = 0
  /\ \A j \in DOMAIN cl.commands : cl.commands[j].outcome # "waiting"

\* A driver that takes a command_id from the generator for good only when
\* it is connected.
run_command_keeps_unsent_id ==
  /\ client.state = "client"
  /\ Len(client.commands) < MaxCalls
  /\ generator' = IF client_connected(client) THEN index_impl(generator) ELSE generator
  /\ yielded' = Append(yielded, index_impl(generator).index)
  /\ LET k == Len(client.commands) + 1
         called == [client EXCEPT
                      !.commands = Append(@, [command_id |-> index_impl(generator).index,
                                              outcome |-> "waiting"])]
     IN  IF LockIsFree(client)
         THEN \E suspends \in BOOLEAN : client' = basic_run_command(called, k, suspends)
         ELSE client' = called
  /\ UNCHANGED << dream, read_loop_task, Reader, writer_closing, cmds, pc, loop,
                  ready_queue, written, nobs, ticks, runner, session >>

\* A driver without the stream lock.
run_command_without_lock ==
  /\ client.state = "client"
  /\ Len(client.commands) < MaxCalls
  /\ generator' = index_impl(generator)
  /\ yielded' = Append(yielded, generator'.index)
  /\ LET k == Len(client.commands) + 1
         called == [client EXCEPT
                      !.commands = Append(@, [command_id |-> generator'.index,
                                              outcome |-> "waiting"])]
     IN  \E suspends \in BOOLEAN : client' = basic_run_command(called, k, suspends)
  /\ UNCHANGED << dream, read_loop_task, Reader, writer_closing, cmds, pc, loop,
                  ready_queue, written, nobs, ticks, runner, session >>

\* MockDreamClient.run_command is called: the command_id is taken from the
\* generator when the command dict is built; then _basic_run_command takes
\* the stream lock and goes on, or waits for the lock.
run_command ==
  /\ client.state = "client"
  /\ Len(client.commands) < MaxCalls
  /\ generator' = index_impl(generator)
  /\ yielded' = Append(yielded, generator'.index)
  /\ LET k == Len(client.commands) + 1
         called == [client EXCEPT
                      !.commands = Append(@, [command_id |-> generator'.index,
                                              outcome |-> "waiting"])]
     IN  IF LockIsFree(client)
         THEN \E suspends \in BOOLEAN : client' = basic_run_command(called, k, suspends)
         ELSE client' = called
  /\ UNCHANGED << dream, read_loop_task, Reader, writer_closing, cmds, pc, loop,
                  ready_queue, written, nobs, ticks, runner, session >>

\* The lock is released to the call that has waited longest.
LockAcquired(k) ==
  /\ client.state = "client"
  /\ k \in DOMAIN client.commands
  /\ client.stream_lock = 0
  /\ client.commands[k].outcome = "waiting"
  /\ \A j \in 1 .. (k - 1) : client.commands[j].outcome # "waiting"
  /\ \E suspends \in BOOLEAN : client' = basic_run_command(client, k, suspends)
  /\ UNCHANGED << dream, read_loop_task, Reader, writer_closing, cmds, pc, loop,
                  ready_queue, written, nobs, ticks, generator, yielded, runner,
                  session >>

\* The drain of call k returns: the call ends and releases the lock.
Drained(k) ==
  /\ client.state = "client"
  /\ k \in DOMAIN client.commands
  /\ client.commands[k].outcome = "drain"
  /\ client' = [client EXCEPT !.commands[k].outcome = "written", !.stream_lock = 0]
  /\ UNCHANGED << dream, read_loop_task, Reader, writer_closing, cmds, pc, loop,
                  ready_queue, written, nobs, ticks, generator, yielded, runner,
                  session >>

\* A call that keeps the stream lock when it times out.
TimesOutWithLock(k) ==
  /\ client.state = "client"
  /\ k \in DOMAIN client.commands
  /\ client.commands[k].outcome = "drain"
  /\ client' = [client EXCEPT !.commands[k].outcome = "TimeoutError"]
  /\ UNCHANGED << dream, read_loop_task, Reader, writer_closing, cmds, pc, loop,
                  ready_queue, written, nobs, ticks, generator, yielded, runner,
                  session >>

\* wait_for gives up on call k after COMMUNICATE_TIMEOUT.  Only a call in
\* drain can wait that long: a call that waits for the lock has started
\* after the call that holds it, which times out first.
TimesOut(k) ==
  /\ client.state = "client"
  /\ k \in DOMAIN client.commands
  /\ client.commands[k].outcome = "drain"
  /\ client' = [client EXCEPT !.commands[k].outcome = "TimeoutError",
                              !.stream_lock = 0]
  /\ UNCHANGED << dream, read_loop_task, Reader, writer_closing, cmds, pc, loop,
                  ready_queue, written, nobs, ticks, generator, yielded, runner,
                  session >>

\* ------------------------------------------------------------ client runner

\* The number of new data products to receive before shutting down.
NUM_NEW_DATA_PRODUCTS_TO_RECEIVE == 10

\* The lines execute_nominal_run sends, in its order: resume, openRoof,
\* readyForData(True), readyForData(False), closeRoof, stop.
Script == << 1, 2, 5, 6, 3, 4 >>

\* MockDreamClientRunner.__init__, with the MockDreamClient it makes.
\* command_status is a dictionary whose keys are None and Some(command_id);
\* data_products_received is a dictionary whose keys are numbers.  position is where
\* execute_nominal_run is, script the number of the command it has got to,
\* cmd_id what run_command has returned, issued the lines it has sent, polls
\* how many times it has slept in a poll loop.
MockDreamClientRunner ==
  /\ runner.state = "none"
  /\ client.state = "none"
  /\ generator.state = "none"
  /\ generator' = index_generator(1, MAX_INDEX, None)
  /\ client' = [state |-> "client", reader |-> "None", writer |-> "None",
                stream_lock |-> 0, commands |-> <<>>, outbound |-> <<>>]
  /\ runner' = [state |-> "runner", process_dream_messages_task |-> "future",
                master_server_state |-> 0, roof_status |-> 0,
                command_status |-> [key \in {} |-> 0],
                data_products_received |-> [key \in {} |-> 0],
                position |-> "created", script |-> 0, cmd_id |-> None,
                issued |-> <<>>, polls |-> 0]
  /\ UNCHANGED << dream, read_loop_task, Reader, writer_closing, cmds, pc, loop,
                  ready_queue, written, nobs, ticks, yielded, session >>

\* d[key] = value, of a dictionary.
Store(d, key, value) ==
  [k \in DOMAIN d \cup {key} |-> IF k = key THEN value ELSE d[k]]

\* len(d), of a dictionary.
len(d) == Cardinality(DOMAIN d)

\* A classifier that stores every item of a batch under the length the
\* collection had when the batch came.
StoreEachAtLength(d, metadata) ==
  IF metadata = <<>> THEN d ELSE Store(d, len(d), metadata[Len(metadata)])

\* for d in metadata: self.data_products_received[len(...)] = d
RECURSIVE StoreEach(_, _)
StoreEach(d, metadata) ==
  IF metadata = <<>> THEN d
  ELSE StoreEach(Store(d, len(d), Head(metadata)), Tail(metadata))

\* A classifier that looks for command_id first.
process_dream_messages_command_id_first(r, data) ==
  LET failed(q) == [q EXCEPT !.process_dream_messages_task = "done"]
  IN  IF "command_id" \in DOMAIN data
      THEN IF "command_response" \notin DOMAIN data THEN failed(r)
           ELSE [r EXCEPT !.command_status =
                            Store(@, Some(data.command_id), data.command_response)]
      ELSE IF "device" \in DOMAIN data
      THEN IF "state" \notin DOMAIN data THEN failed(r)
           ELSE IF "roof_status" \notin DOMAIN data
           THEN failed([r EXCEPT !.master_server_state = data.state])
           ELSE [r EXCEPT !.master_server_state = data.state,
                          !.roof_status = data.roof_status]
      ELSE IF "metadata" \in DOMAIN data
      THEN IF "amount" \notin DOMAIN data THEN failed(r)
           ELSE [r EXCEPT !.data_products_received = StoreEach(@, data.metadata)]
      ELSE failed(r)

\* One round of the loop of process_dream_messages, with the message data.
\* A key that is missing raises KeyError at the statement that reads it.
\* KeyError and the RuntimeError of the last branch are caught by "except
\* Exception", which logs them: the loop is left and the coroutine returns.
process_dream_messages(r, data) ==
  LET failed(q) == [q EXCEPT !.process_dream_messages_task = "done"]
  IN  IF "device" \in DOMAIN data
      THEN IF "state" \notin DOMAIN data THEN failed(r)
           ELSE IF "roof_status" \notin DOMAIN data
           THEN failed([r EXCEPT !.master_server_state = data.state])
           ELSE [r EXCEPT !.master_server_state = data.state,
                          !.roof_status = data.roof_status]
      ELSE IF "command_id" \in DOMAIN data
      THEN IF "command_response" \notin DOMAIN data THEN failed(r)
           ELSE [r EXCEPT !.command_status =
                            Store(@, Some(data.command_id), data.command_response)]
      ELSE IF "metadata" \in DOMAIN data
      THEN IF "amount" \notin DOMAIN data THEN failed(r)
           ELSE [r EXCEPT !.data_products_received = StoreEach(@, data.metadata)]
      ELSE failed(r)

\* The read of the classifier returns the next message of the stream, and
\* the classifier handles it.
ReadsMessage ==
  /\ runner.state = "runner"
  /\ runner.process_dream_messages_task = "reading"
  /\ nobs < Len(written)
  /\ nobs' = nobs + 1
  /\ runner' = process_dream_messages(runner, written[nobs + 1])
  /\ UNCHANGED << dream, read_loop_task, Reader, writer_closing, cmds, pc, loop,
                  ready_queue, written, ticks, Driver, session >>

\* No message comes within COMMUNICATE_TIMEOUT: read raises TimeoutError,
\* which "except Exception" catches as well.
ReadTimesOut ==
  /\ runner.state = "runner"
  /\ runner.process_dream_messages_task = "reading"
  /\ nobs = Len(written)
  /\ runner' = [runner EXCEPT !.process_dream_messages_task = "done"]
  /\ UNCHANGED << dream, read_loop_task, Reader, writer_closing, cmds, pc, loop,
                  ready_queue, written, nobs, ticks, Driver, session >>

\* execute_nominal_run connects, creates the classifier task and sleeps
\* for OPERATOR_WAIT_INTERVAL; the server accepts the connection.
ConnectsAndWaits ==
  /\ client' = [client EXCEPT !.reader = "open", !.writer = "open"]
  /\ accepted' = TRUE
  /\ read_loop_task' = "created"
  /\ ready_queue' = Append(ready_queue, ReadLoopTask)
  /\ runner' = [runner EXCEPT !.process_dream_messages_task = "reading",
                              !.position = "operator_wait"]
  /\ UNCHANGED << dream, reader_buffer, reader_eof, writer_closing, cmds, pc, loop,
                  written, nobs, ticks, generator, yielded, session >>

\* execute_nominal_run sends command i of its script:
\*   cmd_id = await self.mock_dream_client.run_command(...)
\*   self.command_status[cmd_id] = 0
\* and tests the condition of its poll loop for the first time.  run_command
\* has no return statement, so cmd_id is None.  The drain of a line this
\* short returns at once.  The line is the c-th line of the stream; it
\* carries the command_id that the generator yields, which is c until the
\* generator wraps.
IssuesCommand(i) ==
  LET k == Len(client.commands) + 1
      called == [client EXCEPT
                   !.commands = Append(@, [command_id |-> index_impl(generator).index,
                                           outcome |-> "waiting"])]
      sent == basic_run_command(called, k, FALSE)
  IN  /\ generator' = index_impl(generator)
      /\ yielded' = Append(yielded, generator'.index)
      /\ client' = sent
      /\ IF sent.commands[k].outcome = "written"
         THEN /\ cmds' = Append(cmds, Lines[Script[i]])
              /\ pc' = Append(pc, "buffered")
              /\ loop' = Append(loop, "none")
              /\ reader_buffer' = Append(reader_buffer, Len(cmds) + 1)
              /\ Arrival
              /\ runner' = [runner EXCEPT !.cmd_id = None,
                                          !.command_status = Store(@, None, 0),
                                          !.script = i,
                                          !.position = "poll",
                                          !.issued = Append(@, Script[i])]
         ELSE /\ runner' = [runner EXCEPT !.position = "ConnectionError"]
              /\ UNCHANGED << cmds, pc, loop, reader_buffer, read_loop_task,
                              ready_queue >>
      /\ UNCHANGED << dream, accepted, reader_eof, writer_closing, written, nobs,
                      ticks, session >>

\* The end of execute_nominal_run: the classifier task is cancelled, and
\* the client disconnects if it is connected.
CancelsAndDisconnects ==
  /\ runner' = [runner EXCEPT
                  !.process_dream_messages_task =
                     IF @ = "reading" THEN "cancelled" ELSE @,
                  !.position = "returned"]
  /\ IF client_connected(client)
     THEN /\ client' = [client EXCEPT !.writer = "is_closing"]
          /\ reader_eof' = TRUE
          /\ Arrival
     ELSE UNCHANGED << client, reader_eof, read_loop_task, ready_queue, session >>
  /\ UNCHANGED << dream, accepted, reader_buffer, writer_closing, cmds, pc, loop,
                  written, nobs, ticks, generator, yielded, session >>

\* await asyncio.sleep(WAIT_INTERVAL) in a poll loop.
SleepsInPoll ==
  /\ runner' = [runner EXCEPT !.polls = IF @ < MaxPolls THEN @ + 1 ELSE @]
  /\ UNCHANGED << dream, read_loop_task, Reader, writer_closing, cmds, pc, loop,
                  ready_queue, written, nobs, ticks, Driver, session >>

\* execute_nominal_run runs from where it is to its next await.  In a poll
\* loop whose condition holds it sleeps for WAIT_INTERVAL and is where it
\* was.
execute_nominal_run ==
  /\ runner.state = "runner"
  /\ CASE runner.position = "created" -> ConnectsAndWaits
       [] runner.position = "operator_wait" -> IssuesCommand(1)
       [] runner.position = "poll" ->
            IF runner.command_status[runner.cmd_id] # CommandResponse.LAST
            THEN SleepsInPoll
            ELSE IF runner.script = Len(Script) THEN CancelsAndDisconnects
            ELSE IF /\ runner.script = 3
                    /\ len(runner.data_products_received)
                         < NUM_NEW_DATA_PRODUCTS_TO_RECEIVE
            THEN /\ runner' = [runner EXCEPT !.position = "collect"]
                 /\ UNCHANGED << dream, read_loop_task, Reader, writer_closing, cmds,
                                 pc, loop, ready_queue, written, nobs, ticks, Driver,
                                 session >>
            ELSE IssuesCommand(runner.script + 1)
       [] runner.position = "collect" ->
            IF len(runner.data_products_received) < NUM_NEW_DATA_PRODUCTS_TO_RECEIVE
            THEN SleepsInPoll
            ELSE IssuesCommand(4)
       [] OTHER -> FALSE

\* The messages of a device that may send anything: a status, a command
\* response, a batch of one or two data products, messages that have the keys
\* of two kinds, messages that lack a key of their kind, and a message that
\* has none of the keys.
Messages ==
  { asdict([MasterServerStatus EXCEPT !.state = ServerState.OBSERVING,
                                      !.roof_status = RoofStatus.OPEN]),
    Response(1, CommandResponse.ACK),
    Response(1, CommandResponse.LAST),
    NewDataProducts(1),
    NewDataProducts(2),
    [device |-> Device.MASTER, state |-> ServerState.OBSERVING,
     roof_status |-> RoofStatus.CLOSING, command_id |-> 2,
     command_response |-> CommandResponse.LAST],
    [device |-> Device.MASTER, state |-> ServerState.OBSERVING,
     roof_status |-> RoofStatus.OPENING, amount |-> 1,
     metadata |-> << NewDataProduct(7) >>],
    [command_id |-> 2, command_response |-> CommandResponse.COMMAND_FAILED,
     amount |-> 1, metadata |-> << NewDataProduct(8) >>],
    [device |-> Device.MASTER, state |-> ServerState.MAINTENANCE],
    [command_id |-> 2],
    [metadata |-> << NewDataProduct(9) >>],
    [time_sent |-> 1] }

\* The device writes a message to the stream.
DeviceSends(data) ==
  /\ accepted
  /\ Len(written) < MaxMessages
  /\ written' = Append(written, data)
  /\ UNCHANGED << dream, read_loop_task, Reader, writer_closing, cmds, pc, loop,
                  ready_queue, nobs, ticks, Driver, runner, session >>

\* ------------------------------------------------------------ specifications

Server ==
  \/ \E c \in DOMAIN cmds : ExecuteCommand(c)
  \/ \E c \in DOMAIN cmds : SleepElapses(c)
  \/ \E c \in DOMAIN cmds : ResumeCommand(c)
  \/ read_loop
  \/ connect_callback

Loops ==
  \/ \E c \in DOMAIN cmds : RunLoop(c)
  \/ \E c \in DOMAIN cmds : LoopSleepElapses(c)

\* A client that sends any lines at any time, the next one without waiting
\* for the responses to the ones before.
Next ==
  \/ Server
  \/ Loops
  \/ ClientSends(ProtocolLines, MaxCommands)
  \/ ClientCloses

Spec == Init /\ [][Next]_vars

\* Clients that come one after the other, each sending any lines at any
\* time.
NextSessions ==
  \/ Next
  \/ NextClientConnects

SpecSessions == Init /\ [][NextSessions]_vars

\* A client that sends roof commands at any time.
NextRoof ==
  \/ Server
  \/ ClientSends(RoofLines, MaxRoofCommands)
  \/ ClientCloses

SpecRoof == Init /\ [][NextRoof]_vars

\* The same, with an event loop that runs every task that can run, and
\* timers that elapse.
SpecRoofFair ==
  /\ SpecRoof
  /\ WF_vars(read_loop)
  /\ WF_vars(\E c \in DOMAIN cmds : ExecuteCommand(c))
  /\ WF_vars(\E c \in DOMAIN cmds : SleepElapses(c))
  /\ WF_vars(\E c \in DOMAIN cmds : ResumeCommand(c))

\* A client that sends the weather at any time, also while the roof opens.
NextWeather ==
  \/ Server
  \/ ClientSends(WeatherLines, MaxWeatherCommands)
  \/ ClientCloses

SpecWeather == Init /\ [][NextWeather]_vars

\* A caller of index_generator, with any arguments.
NextGenerator ==
  \/ NewIndexGenerator
  \/ NextIndex

SpecGenerator == Init /\ [][NextGenerator]_vars

\* A command driver that runs commands, connected or not.
NextDriver ==
  \/ MockDreamClient
  \/ Connects
  \/ Disconnects
  \/ ReaderAtEof
  \/ run_command
  \/ \E k \in 1 .. MaxCalls : LockAcquired(k)
  \/ \E k \in 1 .. MaxCalls : Drained(k)
  \/ \E k \in 1 .. MaxCalls : TimesOut(k)

SpecDriver == Init /\ [][NextDriver]_vars

\* The client has read the last response to every command it has sent.
InTurn ==
  \A c \in DOMAIN cmds :
    \E i \in 1 .. nobs :
      /\ IsResponse(written[i])
      /\ written[i].command_id = c
      /\ written[i].command_response # CommandResponse.ACK

\* A client that reads what the server writes and sends the commands that
\* start and stop the telemetry loops one after the other, each when it has
\* read the last response to the one before, as the tests and the client
\* runner do.
NextLoop ==
  \/ Server
  \/ Loops
  \/ ClientWakes
  \/ ClientReads
  \/ InTurn /\ ClientSends(LoopLines, MaxLoopCommands)

SpecLoop == Init /\ [][NextLoop]_vars

\* A client that resumes and sends roof commands at any time.
NextStatus ==
  \/ Server
  \/ Loops
  \/ ClientSends(StatusLines, MaxLoopCommands)

SpecStatus == Init /\ [][NextStatus]_vars

\* The client runner with the mock device, in one event loop, as main()
\* runs them.  No handler of a command that the run gets to sleeps.
NextRun ==
  \/ MockDreamClientRunner
  \/ execute_nominal_run
  \/ ReadsMessage
  \/ ReadTimesOut
  \/ read_loop
  \/ \E c \in DOMAIN cmds : ExecuteCommand(c)
  \/ \E c \in DOMAIN cmds : RunLoop(c)
  \/ \E c \in DOMAIN cmds : LoopSleepElapses(c)

\* A task that can run does run.
SpecRun ==
  Init /\ [][NextRun]_vars /\ WF_vars(execute_nominal_run) /\ WF_vars(NextRun)

\* The client runner with a device that may send any message.
NextClassifier ==
  \/ MockDreamClientRunner
  \/ execute_nominal_run
  \/ ReadsMessage
  \/ ReadTimesOut
  \/ \E data \in Messages : DeviceSends(data)

SpecClassifier == Init /\ [][NextClassifier]_vars

\* --------------------------------------------------------------- properties

\* The command_responses written for command_id c, in the order written.
Responses(c) ==
  LET of_c == SelectSeq(written, LAMBDA msg : IsResponse(msg) /\ msg.command_id = c)
  IN  [i \in DOMAIN of_c |-> of_c[i].command_response]

\* The task of command c has ended.
Finished(c) == pc[c] \in {"done", "raised"}

\* Line c decodes to a JSON object that carries a command_id.
HasCommandId(c) == cmds[c].decodable /\ "command_id" \in cmds[c].fields

\* Line c passes the validation against the command schema.
PassesValidation(c) == HasCommandId(c) /\ validate_command(cmds[c])

\* The three ways in which a line with a command_id fails the command schema:
\* a required field is missing, the key is not one of the seven command
\* names, an unknown field is present.
FailsSchema(c) ==
  \/ \E f \in {"key", "parameters", "time_command_sent"} : f \notin cmds[c].fields
  \/ cmds[c].key \notin
       {"resume", "openRoof", "closeRoof", "stop", "readyForData", "dataArchived",
        "setWeatherInfo"}
  \/ \E f \in cmds[c].fields :
       f \notin {"command_id", "key", "parameters", "time_command_sent"}

\* The client has not closed the stream, so no write has been dropped.
StaysConnected == accepted /\ ~reader_eof

roof_status == dream.master_server_status.roof_status

\* C1: every command that passes the validation against the command schema,
\* whatever its key and parameters, gets exactly one ACK and then exactly one
\* of LAST and COMMAND_FAILED while the client stays connected: once its task
\* has ended, the responses with its command_id are ACK, LAST or ACK,
\* COMMAND_FAILED.
C1_EveryValidCommandEnds ==
  \A c \in DOMAIN cmds :
    (PassesValidation(c) /\ Finished(c) /\ StaysConnected) =>
      Responses(c) \in
        { << CommandResponse.ACK, CommandResponse.LAST >>,
          << CommandResponse.ACK, CommandResponse.COMMAND_FAILED >> }

C3_InvalidCommandRejected ==
  \A c \in DOMAIN cmds :
    (HasCommandId(c) /\ FailsSchema(c)) =>
      /\ Responses(c) \in {<< >>, << CommandResponse.INVALID_JSON >>}
      /\ (Finished(c) /\ StaysConnected) =>
           Responses(c) = << CommandResponse.INVALID_JSON >>

\* A line with an unknown field and a line without "parameters" or with an
\* unknown key have both been rejected.
C3_Witness ==
  \E c, d \in DOMAIN cmds :
    /\ HasCommandId(c) /\ HasCommandId(d)
    /\ ~(cmds[c].fields \subseteq CommandProperties)
    /\ (cmds[d].key \notin CommandKeys \/ ~(CommandProperties \subseteq cmds[d].fields))
    /\ pc[c] = "done" /\ pc[d] = "done"
    /\ Responses(c) = << CommandResponse.INVALID_JSON >>
    /\ Responses(d) = << CommandResponse.INVALID_JSON >>

IsInvalidJson(msg) ==
  /\ "command_response" \in DOMAIN msg
  /\ msg.command_response = CommandResponse.INVALID_JSON

\* C4: a line that cannot be decoded as JSON is rejected with an INVALID_JSON
\* response: when the tasks of such lines have ended (the client being
\* connected), there are at least as many INVALID_JSON responses as there are
\* lines that ended without an ACK.
C4_UndecodableLineRejected ==
  StaysConnected =>
    \A c \in DOMAIN cmds :
      (~cmds[c].decodable /\ Finished(c)) =>
        /\ pc[c] = "done"
        /\ Cardinality({i \in DOMAIN written : IsInvalidJson(written[i])}) >=
             Cardinality({d \in DOMAIN cmds : Finished(d) /\ ~PassesValidation(d)})

\* Line c was refused: its task has ended, and the line was not decodable,
\* carried no command_id, failed the command schema, or was answered with
\* COMMAND_FAILED.
Refused(c) ==
  /\ Finished(c)
  /\ \/ ~HasCommandId(c)
     \/ FailsSchema(c)
     \/ \E i \in DOMAIN Responses(c) : Responses(c)[i] = CommandResponse.COMMAND_FAILED

\* Line c is a valid command: it fits the command schema and its parameters
\* are the arguments of its handler.
WellFormed(c) ==
  /\ HasCommandId(c)
  /\ ~FailsSchema(c)
  /\ DOMAIN cmds[c].parameters = ParameterNames[cmds[c].key]

InReadyQueue(t) == \E i \in DOMAIN ready_queue : ready_queue[i] = t

\* C5: once a line has been refused (rejected as a protocol error, or failed
\* with COMMAND_FAILED), and as long as the client has not closed the stream,
\* the server has not closed the connection and the read loop is alive: it
\* is scheduled whenever a line waits in the reader.  A valid command that
\* follows a refused line gets a task that is scheduled, is acknowledged
\* when that task has run and ends with LAST or COMMAND_FAILED after its
\* handler ran.
C5_ConnectionSurvivesErrors ==
  ((\E c \in DOMAIN cmds : Refused(c)) /\ StaysConnected) =>
    /\ connected
    /\ read_loop_task \in {"created", "reading", "woken"}
    /\ reader_buffer # <<>> => InReadyQueue(ReadLoopTask)
    /\ \A c, d \in DOMAIN cmds :
         (Refused(c) /\ c < d /\ WellFormed(d)) =>
           /\ pc[d] # "raised"
           /\ pc[d] = "buffered" =>
                \E i \in DOMAIN reader_buffer : reader_buffer[i] = d
           /\ pc[d] = "created" => InReadyQueue(CommandTask(d))
           /\ pc[d] \in {"sleeping", "woken"} =>
                Responses(d) = << CommandResponse.ACK >>
           /\ pc[d] = "done" =>
                Responses(d) \in
                  { << CommandResponse.ACK, CommandResponse.LAST >>,
                    << CommandResponse.ACK, CommandResponse.COMMAND_FAILED >> }

\* A line was rejected with INVALID_JSON, and a valid command that the read
\* loop took up after that has been acknowledged, executed and answered with
\* LAST on the same, open, connection.
C5_Witness ==
  /\ connected
  /\ StaysConnected
  /\ \E i, k, l \in DOMAIN written :
       /\ i < k /\ k < l
       /\ IsInvalidJson(written[i])
       /\ IsResponse(written[k])
       /\ written[k].command_response = CommandResponse.ACK
       /\ written[l] = Response(written[k].command_id, CommandResponse.LAST)
       /\ written[i].command_id < written[k].command_id
       /\ Refused(written[i].command_id)
       /\ WellFormed(written[k].command_id)

\* The task of command c takes its first step: it acknowledges the command
\* and calls the handler.
Executes(c) == pc[c] = "created" /\ pc'[c] # "created"

\* The handler of command c is in its asyncio.sleep or about to leave it.
InTransition(c) == pc[c] \in {"sleeping", "woken"}

\* What a command in transition from status moving does at a step: it stays
\* in transition with the roof still moving, or it ends with the roof at
\* rest and LAST written after its ACK.
Transition(c, moving, rest) ==
  InTransition(c) =>
    /\ roof_status = moving
    /\ \/ InTransition(c)' /\ roof_status' = moving
       \/ /\ pc'[c] = "done"
          /\ roof_status' = rest
          /\ written' = IF connected
                        THEN Append(written, Response(c, CommandResponse.LAST))
                        ELSE written
          /\ connected =>
               Responses(c)' = << CommandResponse.ACK, CommandResponse.LAST >>

\* C6: an openRoof command executed while roof_status is CLOSED sets it to
\* OPENING and goes to sleep; roof_status is OPENING at every step until the
\* command wakes, and the step that ends the command sets it to OPEN and
\* writes LAST after the ACK.
C6_OpenRoofTransitions ==
  [][\A c \in DOMAIN cmds :
       cmds[c].key = "openRoof" =>
         /\ (Executes(c) /\ roof_status = RoofStatus.CLOSED) =>
              /\ roof_status' = RoofStatus.OPENING
              /\ InTransition(c)'
              /\ connected => Responses(c)' = << CommandResponse.ACK >>
         /\ Transition(c, RoofStatus.OPENING, RoofStatus.OPEN)]_vars

\* An openRoof command has ended with ACK and LAST, and the roof is open.
C6_Witness ==
  \E c \in DOMAIN cmds :
    /\ cmds[c].key = "openRoof"
    /\ pc[c] = "done"
    /\ Responses(c) = << CommandResponse.ACK, CommandResponse.LAST >>
    /\ roof_status = RoofStatus.OPEN

\* C7: a closeRoof command executed while roof_status is OPEN sets it to
\* CLOSING and goes to sleep; roof_status is CLOSING at every step until the
\* command wakes, and the step that ends the command sets it to CLOSED and
\* writes LAST after the ACK.
C7_CloseRoofTransitions ==
  [][\A c \in DOMAIN cmds :
       cmds[c].key = "closeRoof" =>
         /\ (Executes(c) /\ roof_status = RoofStatus.OPEN) =>
              /\ roof_status' = RoofStatus.CLOSING
              /\ InTransition(c)'
              /\ connected => Responses(c)' = << CommandResponse.ACK >>
         /\ Transition(c, RoofStatus.CLOSING, RoofStatus.CLOSED)]_vars

\* A closeRoof command that followed an openRoof has ended with ACK and LAST,
\* and the roof is closed again.
C7_Witness ==
  \E c, d \in DOMAIN cmds :
    /\ c < d
    /\ cmds[c].key = "openRoof"
    /\ cmds[d].key = "closeRoof"
    /\ pc[d] = "done"
    /\ Responses(c) = << CommandResponse.ACK, CommandResponse.LAST >>
    /\ Responses(d) = << CommandResponse.ACK, CommandResponse.LAST >>
    /\ roof_status = RoofStatus.CLOSED

\* C8: an openRoof command executed while roof_status is not CLOSED, and a
\* closeRoof command executed while roof_status is not OPEN, ends in the step
\* that executes it, with ACK and then COMMAND_FAILED written, and changes
\* neither roof_status nor anything else of the device, its tasks or its
\* connection.
C8_RoofCommandFails ==
  [][\A c \in DOMAIN cmds :
       ( /\ Executes(c)
         /\ \/ cmds[c].key = "openRoof" /\ roof_status # RoofStatus.CLOSED
            \/ cmds[c].key = "closeRoof" /\ roof_status # RoofStatus.OPEN ) =>
         /\ pc'[c] = "done"
         /\ \A d \in DOMAIN cmds \ {c} : pc'[d] = pc[d]
         /\ UNCHANGED << dream, loop, read_loop_task, Reader, writer_closing >>
         /\ written' =
              IF connected
              THEN written \o << Response(c, CommandResponse.ACK),
                                 Response(c, CommandResponse.COMMAND_FAILED) >>
              ELSE written]_vars

\* An openRoof command was failed while the roof was opening, open or
\* closing, and a closeRoof command was failed too.
C8_Witness ==
  \E c, d \in DOMAIN cmds :
    /\ cmds[c].key = "openRoof"
    /\ cmds[d].key = "closeRoof"
    /\ roof_status # RoofStatus.CLOSED
    /\ Responses(c) = << CommandResponse.ACK, CommandResponse.COMMAND_FAILED >>
    /\ Responses(d) = << CommandResponse.ACK, CommandResponse.COMMAND_FAILED >>

\* At this step the client reads the LAST of command c.
ObservesLast(c) ==
  /\ nobs' = nobs + 1
  /\ written'[nobs'] = Response(c, CommandResponse.LAST)

\* C9: when the client reads the LAST of a resume, the status task is not
\* done; when it reads the LAST of a stop, the status task is done.
C9_StatusTaskFollowsResumeAndStop ==
  [][\A c \in DOMAIN cmds :
       ObservesLast(c) =>
         /\ cmds[c].key = "resume" =>
              /\ dream'.status_task = Task(c)
              /\ ~done(loop', dream'.status_task)
         /\ cmds[c].key = "stop" => done(loop', dream'.status_task)]_vars

\* The client has just read the LAST of a stop that followed a resume whose
\* LAST it had read: the status task that the resume started wrote a status
\* and is done.
C9_Witness ==
  \E r, c \in DOMAIN cmds :
    /\ r < c
    /\ cmds[r].key = "resume"
    /\ cmds[c].key = "stop"
    /\ nobs > 0
    /\ written[nobs] = Response(c, CommandResponse.LAST)
    /\ \E i, j \in 1 .. nobs :
         /\ i < j
         /\ written[i] = Response(r, CommandResponse.LAST)
         /\ IsStatus(written[j])
    /\ dream.status_task = Task(r)
    /\ loop[r] = "done"

\* C10: when the client reads the LAST of a readyForData(true), the ready
\* flag is true and the new-data-products task is not done; when it reads
\* the LAST of a readyForData(false), the flag is false and the task is done.
C10_DataTaskFollowsReady ==
  [][\A c \in DOMAIN cmds :
       (ObservesLast(c) /\ cmds[c].key = "readyForData") =>
         IF cmds[c].parameters.ready
         THEN /\ dream'.client_ready_for_data = TRUE
              /\ dream'.new_data_products_task = Task(c)
              /\ ~done(loop', dream'.new_data_products_task)
         ELSE /\ dream'.client_ready_for_data = FALSE
              /\ done(loop', dream'.new_data_products_task)]_vars

\* The client has just read the LAST of a readyForData(false) that followed
\* a readyForData(true) whose LAST it had read: the task that the first
\* command started wrote a batch of data products and is done.
C10_Witness ==
  \E r, c \in DOMAIN cmds :
    /\ r < c
    /\ cmds[r] = CommandLine("readyForData", [ready |-> TRUE])
    /\ cmds[c] = CommandLine("readyForData", [ready |-> FALSE])
    /\ nobs > 0
    /\ written[nobs] = Response(c, CommandResponse.LAST)
    /\ \E i, j \in 1 .. nobs :
         /\ i < j
         /\ written[i] = Response(r, CommandResponse.LAST)
         /\ IsDataProducts(written[j])
    /\ dream.new_data_products_task = Task(r)
    /\ ~dream.client_ready_for_data
    /\ loop[r] = "done"

\* The eight fields of the Weather Info, seven numbers and one boolean.
WeatherNumbers ==
  {"temperature", "humidity", "wind_speed", "wind_direction", "pressure", "rain",
   "cloudcover"}

WeatherFields == WeatherNumbers \cup {"safe_observing_conditions"}

\* The weather_info mapping that command c carries.
SuppliedWeather(c) == cmds[c].parameters.weather_info

\* The mapping has exactly the eight fields, each of its type.
MatchesWeatherSchema(w) ==
  /\ DOMAIN w = WeatherFields
  /\ \A k \in WeatherNumbers : w[k].type = "number"
  /\ w.safe_observing_conditions.type = "boolean"

\* The value supplied for field k.
Supplied(w, k) == IF k \in WeatherNumbers THEN w[k].val ELSE w[k].val = 1

\* C11: a setWeatherInfo command whose weather_info has exactly the eight
\* fields with the right types ends in the step that executes it, with ACK
\* and LAST written, and leaves each of the eight fields of the Weather Info
\* equal to the value supplied.
C11_WeatherInfoUpdated ==
  [][\A c \in DOMAIN cmds :
       ( /\ Executes(c)
         /\ cmds[c].key = "setWeatherInfo"
         /\ MatchesWeatherSchema(SuppliedWeather(c)) ) =>
         /\ pc'[c] = "done"
         /\ DOMAIN dream'.weather_info = WeatherFields
         /\ \A k \in WeatherFields :
              dream'.weather_info[k] = Supplied(SuppliedWeather(c), k)
         /\ written' =
              IF connected
              THEN written \o << Response(c, CommandResponse.ACK),
                                 Response(c, CommandResponse.LAST) >>
              ELSE written]_vars

\* Two setWeatherInfo commands with different valid values have ended in
\* LAST, and the Weather Info holds the values of the one executed last.
C11_Witness ==
  \E c, d \in DOMAIN cmds :
    /\ c < d
    /\ cmds[c].key = "setWeatherInfo" /\ cmds[d].key = "setWeatherInfo"
    /\ SuppliedWeather(c) = GoodWeather
    /\ SuppliedWeather(d) = OtherWeather
    /\ Responses(c) = << CommandResponse.ACK, CommandResponse.LAST >>
    /\ Responses(d) = << CommandResponse.ACK, CommandResponse.LAST >>
    /\ dream.weather_info.temperature = 21
    /\ dream.weather_info.safe_observing_conditions = FALSE

\* C12: a setWeatherInfo command whose weather_info does not match the
\* weather schema (a field missing, misnamed or unknown, or a value of the
\* wrong type) ends in the step that executes it, with ACK and COMMAND_FAILED
\* written, and leaves the Weather Info as it was.
C12_WeatherInfoRefused ==
  [][\A c \in DOMAIN cmds :
       ( /\ Executes(c)
         /\ cmds[c].key = "setWeatherInfo"
         /\ ~MatchesWeatherSchema(SuppliedWeather(c)) ) =>
         /\ pc'[c] = "done"
         /\ dream'.weather_info = dream.weather_info
         /\ written' =
              IF connected
              THEN written \o << Response(c, CommandResponse.ACK),
                                 Response(c, CommandResponse.COMMAND_FAILED) >>
              ELSE written]_vars

\* A weather_info with a value of the wrong type was refused after a valid
\* one was stored, and the Weather Info still holds the valid one.
C12_Witness ==
  \E c, d \in DOMAIN cmds :
    /\ cmds[c].key = "setWeatherInfo" /\ cmds[d].key = "setWeatherInfo"
    /\ SuppliedWeather(c) = GoodWeather
    /\ SuppliedWeather(d) \in {WeatherWithBooleanRain, WeatherWithNumberSafe}
    /\ Responses(c) = << CommandResponse.ACK, CommandResponse.LAST >>
    /\ Responses(d) = << CommandResponse.ACK, CommandResponse.COMMAND_FAILED >>
    /\ written[Len(written)] = Response(d, CommandResponse.COMMAND_FAILED)
    /\ dream.weather_info.rain = 1
    /\ dream.weather_info.safe_observing_conditions = TRUE

\* The arguments the generator was constructed with are a valid
\* configuration: imin < imax and imin <= i0 <= imax.
ValidConfiguration ==
  /\ generator.state # "none"
  /\ generator.imin < generator.imax
  /\ generator.imin <= generator.i0
  /\ generator.i0 <= generator.imax

\* C13: with a valid configuration the construction succeeds, the first
\* value yielded is i0, the value after v is v + 1 if v < imax and imin if
\* v = imax, and every value lies in imin .. imax.
C13_IndexSequence ==
  ValidConfiguration =>
    /\ generator.state = "generator"
    /\ yielded # <<>> => yielded[1] = generator.i0
    /\ \A j \in DOMAIN yielded :
         /\ generator.imin <= yielded[j] /\ yielded[j] <= generator.imax
         /\ j > 1 =>
              yielded[j] = IF yielded[j - 1] < generator.imax
                           THEN yielded[j - 1] + 1
                           ELSE generator.imin

\* The generator made with imin = 1 and imax = 3 has yielded 1, 2, 3, 1, 2, 3.
C13_Witness ==
  /\ generator.state = "generator"
  /\ generator.imin = 1
  /\ generator.imax = 3
  /\ yielded = << 1, 2, 3, 1, 2, 3 >>

\* C14: with imin >= imax, or with an initial value outside imin .. imax,
\* the construction ends with ValueError: there is no generator, and no value
\* is ever yielded.
C14_InvalidConfigurationFails ==
  (generator.state # "none" /\ client.state = "none" /\ ~ValidConfiguration) =>
    /\ generator.state = "ValueError"
    /\ yielded = <<>>

\* The construction failed because the initial value was above imax, the
\* limits being in order.
C14_Witness ==
  /\ generator.state = "ValueError"
  /\ generator.imin < generator.imax
  /\ generator.i0 > generator.imax
  /\ yielded = <<>>

\* The number of values the generator yields before it repeats one.
Period == generator.imax - generator.imin + 1

\* C15: the command_ids of any run of at most Period consecutive calls of
\* run_command by one driver are positive and pairwise distinct, whether the
\* calls wrote the command or failed with ConnectionError or TimeoutError.
C15_CommandIdsDistinct ==
  client.state = "client" =>
    \A i, j \in DOMAIN client.commands :
      /\ client.commands[i].command_id > 0
      /\ (i < j /\ j - i < Period) =>
           client.commands[i].command_id # client.commands[j].command_id

\* Calls that failed with ConnectionError and TimeoutError and calls that
\* wrote the command have used distinct command_ids, and the first id has
\* come back after the generator has wrapped.
C15_Witness ==
  /\ client.state = "client"
  /\ Len(client.commands) > Period
  /\ client.commands[1].command_id = client.commands[Period + 1].command_id
  /\ client.commands[1].outcome = "ConnectionError"
  /\ client.commands[2].outcome = "written"
  /\ client.commands[3].outcome = "TimeoutError"

\* The telemetry loops that commands with this key started and that are
\* running: scheduled to write, or asleep between two writes.
Running(key) ==
  {c \in DOMAIN cmds : cmds[c].key = key /\ loop[c] \in {"queued", "sleeping"}}

\* C16: at most one status loop and at most one new-data-products loop are
\* running, whatever commands were executed.
C16_AtMostOneLoopOfEachKind ==
  /\ Cardinality(Running("resume")) <= 1
  /\ Cardinality(Running("readyForData")) <= 1

\* Message i is the ACK of a command with this key and these parameters: the
\* command is executed in the step that writes it.
Starts(i, key, parameters) ==
  /\ IsResponse(written[i])
  /\ written[i].command_response = CommandResponse.ACK
  /\ cmds[written[i].command_id].key = key
  /\ cmds[written[i].command_id].parameters = parameters

\* Message j is the LAST of a command with this key and these parameters.
Ends(j, key, parameters) ==
  /\ IsResponse(written[j])
  /\ written[j].command_response = CommandResponse.LAST
  /\ cmds[written[j].command_id].key = key
  /\ cmds[written[j].command_id].parameters = parameters

\* C17: every status message is written after a resume was executed, with no
\* stop completed between the last such resume and the message.
C17_StatusOnlyWhileResumed ==
  \A k \in DOMAIN written :
    IsStatus(written[k]) =>
      \E i \in 1 .. (k - 1) :
        /\ Starts(i, "resume", NoParameters)
        /\ \A j \in (i + 1) .. (k - 1) : ~Ends(j, "stop", NoParameters)

\* C18: every batch of new data products is written after a
\* readyForData(true) was executed, with no readyForData(false) completed
\* between the last such command and the batch.
C18_DataProductsOnlyWhileReady ==
  \A k \in DOMAIN written :
    IsDataProducts(written[k]) =>
      \E i \in 1 .. (k - 1) :
        /\ Starts(i, "readyForData", [ready |-> TRUE])
        /\ \A j \in (i + 1) .. (k - 1) : ~Ends(j, "readyForData", [ready |-> FALSE])

\* C19: while the handler of a command is in its delay, a command received
\* later does not wait for it: its line is about to be read by the read
\* loop, or its task is scheduled, or its task has run; a valid command
\* whose task has run is acknowledged, and has its terminal response if its
\* own handler has no delay left.
C19_LaterCommandDoesNotWait ==
  \A c, d \in DOMAIN cmds :
    (c < d /\ InTransition(c)) =>
      /\ pc[d] = "buffered" => InReadyQueue(ReadLoopTask)
      /\ pc[d] = "created" => InReadyQueue(CommandTask(d))
      /\ (WellFormed(d) /\ StaysConnected) =>
           /\ InTransition(d) => Responses(d) = << CommandResponse.ACK >>
           /\ Finished(d) =>
                Responses(d) \in
                  { << CommandResponse.ACK, CommandResponse.LAST >>,
                    << CommandResponse.ACK, CommandResponse.COMMAND_FAILED >> }

\* An openRoof is in its delay, with only its ACK written, and a command
\* received after it has been acknowledged, executed and answered with LAST.
C19_Witness ==
  \E c, d \in DOMAIN cmds :
    /\ c < d
    /\ cmds[c].key = "openRoof"
    /\ pc[c] = "sleeping"
    /\ Responses(c) = << CommandResponse.ACK >>
    /\ pc[d] = "done"
    /\ Responses(d) = << CommandResponse.ACK, CommandResponse.LAST >>
    /\ written[Len(written)] = Response(d, CommandResponse.LAST)

\* Commands c and d are the two openRoof commands in flight, neither
\* executed yet, and the roof is closed.
TwoInFlight(c, d) ==
  /\ c \in DOMAIN cmds /\ d \in DOMAIN cmds
  /\ c # d
  /\ roof_status = RoofStatus.CLOSED
  /\ \A e \in DOMAIN cmds :
       (cmds[e].key = "openRoof" /\ ~Finished(e)) <=> e \in {c, d}
  /\ pc[c] \in {"buffered", "created"}
  /\ pc[d] \in {"buffered", "created"}

\* A closeRoof command has found the roof open.
ClosedAgain ==
  \E e \in DOMAIN cmds :
    /\ cmds[e].key = "closeRoof"
    /\ \/ InTransition(e)
       \/ Responses(e) = << CommandResponse.ACK, CommandResponse.LAST >>

\* Both commands have ended, the client being connected: one with LAST, the
\* other with COMMAND_FAILED, and the roof is open unless a closeRoof has
\* found it open since.
OneWins(c, d) ==
  (c \in DOMAIN cmds /\ d \in DOMAIN cmds /\ Finished(c) /\ Finished(d)
     /\ StaysConnected) =>
    /\ { Responses(c), Responses(d) } =
         { << CommandResponse.ACK, CommandResponse.LAST >>,
           << CommandResponse.ACK, CommandResponse.COMMAND_FAILED >> }
    /\ roof_status = RoofStatus.OPEN \/ ClosedAgain

\* C20: from a state in which two openRoof commands are in flight and the
\* roof is closed, whatever the order of the steps that follow, one of the
\* two ends in LAST and the other in COMMAND_FAILED, and the roof is opened.
C20_OneOpenRoofWins ==
  \A c, d \in 1 .. MaxRoofCommands : [](TwoInFlight(c, d) => []OneWins(c, d))

\* Two openRoof commands have ended, one in LAST and one in COMMAND_FAILED,
\* the second having been executed during the delay of the first, and the
\* roof is open.
C20_Witness ==
  \E c, d \in DOMAIN cmds :
    /\ c < d
    /\ cmds[c].key = "openRoof" /\ cmds[d].key = "openRoof"
    /\ roof_status = RoofStatus.OPEN
    /\ \E i \in DOMAIN written :
         /\ i + 3 <= Len(written)
         /\ written[i] = Response(c, CommandResponse.ACK)
         /\ written[i + 1] = Response(d, CommandResponse.ACK)
         /\ written[i + 2] = Response(d, CommandResponse.COMMAND_FAILED)
         /\ written[i + 3] = Response(c, CommandResponse.LAST)

\* C21: when the read loop has ended because the client closed the stream or
\* a read failed, no status loop and no new-data-products loop is running
\* any more.
C21_SessionTornDown ==
  read_loop_task = "done" =>
    /\ Running("resume") = {}
    /\ Running("readyForData") = {}

\* Call k of run_command looks at the connection in this step: it is made
\* with the lock free, or it has waited and now has the lock.
ChecksConnection(k) ==
  /\ client.state = "client"
  /\ k \in DOMAIN client'.commands
  /\ client'.commands[k].outcome # "waiting"
  /\ k \in DOMAIN client.commands => client.commands[k].outcome = "waiting"

InDrain(cl) ==
  {k \in DOMAIN cl.commands : cl.commands[k].outcome = "drain"}

\* C23: at most one call of run_command is between its write and the end of
\* its drain, and it holds the stream lock; no other call writes a byte
\* until that call has ended.
C23_StreamLockExcludes ==
  [][(client.state = "client" /\ client'.state = "client") =>
       /\ Cardinality(InDrain(client')) <= 1
       /\ InDrain(client') \subseteq {client'.stream_lock}
       /\ client'.outbound # client.outbound =>
            \A j \in InDrain(client) : client'.commands[j].outcome # "drain"]_vars

\* The first call has written its line and ended, the second is in drain
\* with the lock, and two later calls wait for the lock with nothing
\* written.
C23_Witness ==
  /\ client.state = "client"
  /\ Len(client.commands) = 4
  /\ client.commands[1].outcome = "written"
  /\ client.commands[2].outcome = "drain"
  /\ client.commands[3].outcome = "waiting"
  /\ client.commands[4].outcome = "waiting"
  /\ client.stream_lock = 2
  /\ client.outbound = << client.commands[1].command_id, client.commands[2].command_id >>

\* The dictionary d, whose keys are 0 .. n - 1, with the items of the sequence
\* items under the next keys, in their order.
Appended(d, items) ==
  LET n == Cardinality(DOMAIN d)
  IN  [k \in 0 .. (n + Len(items) - 1) |-> IF k < n THEN d[k] ELSE items[k - n + 1]]

\* The step in which the classifier handles the message written[nobs + 1].
Classifies ==
  /\ runner.state = "runner"
  /\ nobs' = nobs + 1

\* C24: the classifier handles a message by the keys it has, device before
\* command_id before metadata: with device it writes only the server state
\* and the roof status, whatever else the message has; else with command_id
\* it only stores the command_response under the command_id; else with
\* metadata it only appends the items to the data products received.
C24_ClassifierPrecedence ==
  [][Classifies =>
       LET data == written[nobs + 1]
       IN  /\ IsStatus(data) =>
                /\ runner'.command_status = runner.command_status
                /\ runner'.data_products_received = runner.data_products_received
                /\ ("state" \in DOMAIN data) =>
                     (runner'.master_server_state = data.state)
                /\ ({"state", "roof_status"} \subseteq DOMAIN data) =>
                     (runner'.roof_status = data.roof_status)
           /\ (~IsStatus(data) /\ IsResponse(data)) =>
                /\ runner'.master_server_state = runner.master_server_state
                /\ runner'.roof_status = runner.roof_status
                /\ runner'.data_products_received = runner.data_products_received
                /\ ("command_response" \in DOMAIN data) =>
                     (runner'.command_status =
                        Store(runner.command_status, Some(data.command_id),
                              data.command_response))
           /\ (~IsStatus(data) /\ ~IsResponse(data) /\ IsDataProducts(data)) =>
                /\ runner'.master_server_state = runner.master_server_state
                /\ runner'.roof_status = runner.roof_status
                /\ runner'.command_status = runner.command_status
                /\ ("amount" \in DOMAIN data) =>
                     (runner'.data_products_received =
                        Appended(runner.data_products_received, data.metadata))]_vars

\* The classifier has handled a status that also has a command_id, a
\* command response that also has metadata, and a batch: the first has set
\* the state and the roof status only, the second the command status only.
C24_Witness ==
  /\ runner.state = "runner"
  /\ nobs = 3
  /\ IsStatus(written[1]) /\ IsResponse(written[1])
  /\ ~IsStatus(written[2]) /\ IsResponse(written[2]) /\ IsDataProducts(written[2])
  /\ written[3] = NewDataProducts(2)
  /\ runner.process_dream_messages_task = "reading"
  /\ runner.master_server_state = written[1].state
  /\ runner.roof_status = written[1].roof_status
  /\ DOMAIN runner.command_status \ {None} = {Some(written[2].command_id)}
  /\ runner.command_status[Some(written[2].command_id)] = written[2].command_response
  /\ runner.data_products_received = Appended([key \in {} |-> 0], written[3].metadata)

\* A message with none of the keys device, command_id and metadata.
Unclassifiable(data) ==
  ~IsStatus(data) /\ ~IsResponse(data) /\ ~IsDataProducts(data)

\* C25: when the classifier has read a message that has none of the keys,
\* its task has ended with the RuntimeError, which its caller can see.
C25_UnclassifiableIsFatal ==
  (/\ runner.state = "runner"
   /\ \E i \in 1 .. nobs : Unclassifiable(written[i])) =>
    runner.process_dream_messages_task = "RuntimeError"

\* The mirrors of the client runner.
Mirrors(r) ==
  << r.command_status, r.roof_status, r.master_server_state,
     r.data_products_received >>

\* C26: a step that changes a mirror of the client runner (command status,
\* roof status, server state, data products received) is a step in which the
\* classifier handles a message.
C26_OnlyClassifierWritesMirrors ==
  [][(runner.state = "runner" /\ Mirrors(runner') # Mirrors(runner)) =>
       Classifies]_vars

\* C27: the run sends its commands in the order of the script, each when
\* the command status shows LAST for the one before: when the mirror shows
\* LAST for the resume, the openRoof follows.
C27_NextCommandFollowsLast ==
  (/\ runner.state = "runner"
   /\ runner.issued = << Script[1] >>
   /\ Some(1) \in DOMAIN runner.command_status
   /\ runner.command_status[Some(1)] = CommandResponse.LAST)
    ~> (runner.state = "runner" /\ Len(runner.issued) >= 2)

\* C28: the nominal run against the mock device terminates.
C28_NominalRunTerminates ==
  <>(runner.state = "runner" /\ runner.position = "returned")

\* written[i] is the response with this code to command c.
IsResponseTo(i, c, command_response) ==
  /\ IsResponse(written[i])
  /\ written[i].command_id = c
  /\ written[i].command_response = command_response

\* written[s] is the first status that is written after written[j].
FirstStatusAfter(s, j) ==
  /\ s > j
  /\ IsStatus(written[s])
  /\ \A t \in (j + 1) .. (s - 1) : ~IsStatus(written[t])

\* A roof command of the other direction is acknowledged between written[j]
\* and written[s].
OtherWayBetween(c, j, s) ==
  \E t \in (j + 1) .. (s - 1) :
    /\ IsResponse(written[t])
    /\ written[t].command_response = CommandResponse.ACK
    /\ cmds[written[t].command_id].key \in {"openRoof", "closeRoof"} \ {cmds[c].key}

\* The roof status during the transition of command c, and after it.
Moving(c) == IF cmds[c].key = "openRoof" THEN RoofStatus.OPENING ELSE RoofStatus.CLOSING
AtRest(c) == IF cmds[c].key = "openRoof" THEN RoofStatus.OPEN ELSE RoofStatus.CLOSED

\* Every status between the ACK written[i] and the LAST written[j] of the roof
\* command c reports the transition.
ReportsTransition(c, i, j) ==
  \A s \in (i + 1) .. (j - 1) :
    IsStatus(written[s]) => written[s].roof_status = Moving(c)

C30_StatusBeforeFirstResponse ==
  \A i \in DOMAIN written :
    IsResponse(written[i]) => \E j \in 1 .. (i - 1) : IsStatus(written[j])

\* A command has ended before written[s]: its last response is written.
CompletedBefore(s) ==
  \E j \in 1 .. (s - 1) :
    /\ IsResponse(written[j])
    /\ written[j].command_response # CommandResponse.ACK

\* C31: a status written before any command has completed reports the
\* state HIBERNATING, the first status written after the LAST of a resume
\* reports READY, and every status has the device, start_time, stop_time,
\* error_code and rain_sensor of the construction.
C31_StateFollowsCommands ==
  \A s \in DOMAIN written :
    IsStatus(written[s]) =>
      /\ ~CompletedBefore(s) => written[s].state = ServerState.HIBERNATING
      /\ \A c \in DOMAIN cmds : \A j \in DOMAIN written :
           (/\ cmds[c].key = "resume"
            /\ IsResponseTo(j, c, CommandResponse.LAST)
            /\ FirstStatusAfter(s, j)) => written[s].state = ServerState.READY
      /\ written[s].device = Device.MASTER
      /\ written[s].start_time = 0
      /\ written[s].stop_time = 0
      /\ written[s].error_code = ErrorCode.OK
      /\ written[s].rain_sensor = TRUE

\* C32: every batch of new data products written to the stream has an
\* amount that is the number of items of its metadata, between 1 and 6, and
\* every item has a name, a location and a timestamp.
C32_BatchesWellFormed ==
  \A i \in DOMAIN written :
    IsDataProducts(written[i]) =>
      /\ written[i].amount = Len(written[i].metadata)
      /\ 1 <= written[i].amount /\ written[i].amount <= 6
      /\ \A k \in DOMAIN written[i].metadata :
           {"name", "location", "timestamp"} \subseteq DOMAIN written[i].metadata[k]

\* A batch of one product and a batch of six have been written.
C32_Witness ==
  \E i, j \in DOMAIN written :
    /\ IsDataProducts(written[i]) /\ written[i].amount = 1
    /\ IsDataProducts(written[j]) /\ written[j].amount = 6

\* C33: the keys the command schema accepts are the keys of dispatch_dict,
\* and every command that has passed the validation, and so has been
\* acknowledged, has a key that dispatch_dict has.
C33_AcceptedKeysAreDispatched ==
  /\ CommandKeys = dispatch_dict
  /\ \A c \in DOMAIN cmds :
       (\E i \in DOMAIN written : IsResponseTo(i, c, CommandResponse.ACK)) =>
         cmds[c].key \in dispatch_dict

\* A dataArchived or a setWeatherInfo has been acknowledged and has ended
\* with LAST, and a line with the key "openHatch" has been refused.
C33_Witness ==
  \E c, d \in DOMAIN cmds : \E i, j \in DOMAIN written :
    /\ cmds[c].key \in {"dataArchived", "setWeatherInfo"}
    /\ IsResponseTo(i, c, CommandResponse.LAST)
    /\ cmds[d].key = "openHatch"
    /\ IsResponseTo(j, d, CommandResponse.INVALID_JSON)

\* The ACK of command c is in the stream w.
AcknowledgedIn(w, c) ==
  \E i \in DOMAIN w :
    /\ IsResponse(w[i])
    /\ w[i].command_id = c
    /\ w[i].command_response = CommandResponse.ACK

\* The handler of command c runs in this step.
HandlerRuns(c) ==
  /\ c \in DOMAIN pc
  /\ pc[c] \in {"created", "woken"}
  /\ pc'[c] # pc[c]

\* C34 as stated: a step that changes the state of the device (roof status,
\* weather info, ready flag, status task, new data products task) is a step of
\* the handler of a command whose ACK has been written.
C34_AckBeforeHandler ==
  [][dream' # dream =>
       \E c \in 1 .. MaxCommands : HandlerRuns(c) /\ AcknowledgedIn(written', c)]_vars

\* C34, amended: a step that changes the state of the device is a step of the
\* handler of a command whose ACK has been written, or whose client is not
\* connected any more, so that the ACK has been dropped.
C34_AckBeforeHandlerWhileConnected ==
  [][dream' # dream =>
       \E c \in 1 .. MaxCommands :
         HandlerRuns(c) /\ (AcknowledgedIn(written', c) \/ ~connected)]_vars

\* The handler of an openRoof sleeps with the roof OPENING; the client is
\* connected and has been sent the ACK and nothing else.
C34_Witness ==
  \E c \in DOMAIN cmds :
    /\ cmds[c].key = "openRoof"
    /\ pc[c] = "sleeping"
    /\ roof_status = RoofStatus.OPENING
    /\ connected
    /\ written = << Response(c, CommandResponse.ACK) >>

\* The items of the batches among the first n messages of the stream, in
\* the order of their arrival.  A batch is a message that has metadata and
\* amount, and neither device nor command_id.
RECURSIVE ItemsOfBatches(_)
ItemsOfBatches(n) ==
  IF n = 0 THEN <<>>
  ELSE IF /\ IsDataProducts(written[n])
          /\ "amount" \in DOMAIN written[n]
          /\ ~IsStatus(written[n])
          /\ ~IsResponse(written[n])
       THEN ItemsOfBatches(n - 1) \o written[n].metadata
       ELSE ItemsOfBatches(n - 1)

\* C35: when the classifier has handled any messages, the collection of the
\* data products received has the keys 0 .. n - 1, n being the number of the
\* items of all batches handled, and under key k the item that was the
\* (k + 1)-th to arrive.
C35_DataProductsInArrivalOrder ==
  runner.state = "runner" =>
    LET items == ItemsOfBatches(nobs)
    IN  /\ DOMAIN runner.data_products_received = 0 .. (Len(items) - 1)
        /\ \A k \in DOMAIN runner.data_products_received :
             runner.data_products_received[k] = items[k + 1]

\* The classifier has handled a batch of two items and then a batch of one:
\* the three items are under the keys 0, 1 and 2.
C35_Witness ==
  /\ runner.state = "runner"
  /\ nobs = 2
  /\ written[1] = NewDataProducts(2)
  /\ written[2] = NewDataProducts(1)
  /\ DOMAIN runner.data_products_received = {0, 1, 2}
  /\ runner.data_products_received[1] = NewDataProduct(1)
  /\ runner.data_products_received[2] = NewDataProduct(0)

\* The changes of roof_status along the cycle.
RoofCycle ==
  { << RoofStatus.CLOSED, RoofStatus.OPENING >>,
    << RoofStatus.OPENING, RoofStatus.OPEN >>,
    << RoofStatus.OPEN, RoofStatus.CLOSING >>,
    << RoofStatus.CLOSING, RoofStatus.CLOSED >> }

\* C36: under any sequence and interleaving of roof commands, every change
\* of roof_status is a change along the cycle CLOSED, OPENING, OPEN, CLOSING,
\* CLOSED.
C36_RoofFollowsCycle ==
  [][roof_status' # roof_status => << roof_status, roof_status' >> \in RoofCycle]_vars

\* The roof has gone round the cycle once and is opening again: an openRoof
\* and a closeRoof have ended with LAST, and a later openRoof sleeps.
C36_Witness ==
  \E c, d, e \in DOMAIN cmds :
    /\ c < d /\ d < e
    /\ cmds[c].key = "openRoof" /\ cmds[d].key = "closeRoof" /\ cmds[e].key = "openRoof"
    /\ Responses(c) = << CommandResponse.ACK, CommandResponse.LAST >>
    /\ Responses(d) = << CommandResponse.ACK, CommandResponse.LAST >>
    /\ pc[e] = "sleeping"
    /\ roof_status = RoofStatus.OPENING

\* The roof commands whose handlers are in their transition delay.
InDelay ==
  {c \in DOMAIN cmds : cmds[c].key \in {"openRoof", "closeRoof"} /\ InTransition(c)}

\* C37: at most one roof handler is in its transition delay, and roof_status
\* is OPENING or CLOSING exactly when one is.
C37_OneRoofHandlerInDelay ==
  /\ Cardinality(InDelay) <= 1
  /\ roof_status \in {RoofStatus.OPENING, RoofStatus.CLOSING} <=> InDelay # {}

\* A closeRoof sleeps with the roof CLOSING, and an openRoof and a closeRoof
\* that came during the delay have failed.
C37_Witness ==
  \E c, d, e \in DOMAIN cmds :
    /\ c < d /\ c < e
    /\ cmds[c].key = "closeRoof" /\ cmds[d].key = "openRoof" /\ cmds[e].key = "closeRoof"
    /\ InDelay = {c}
    /\ roof_status = RoofStatus.CLOSING
    /\ Responses(d) = << CommandResponse.ACK, CommandResponse.COMMAND_FAILED >>
    /\ Responses(e) = << CommandResponse.ACK, CommandResponse.COMMAND_FAILED >>

\* C38: a roof that is OPENING becomes OPEN and a roof that is CLOSING becomes
\* CLOSED, also when the client closes the stream or other commands come during
\* the transition.
C38_TransitionEnds ==
  /\ [](roof_status = RoofStatus.OPENING => <>(roof_status = RoofStatus.OPEN))
  /\ [](roof_status = RoofStatus.CLOSING => <>(roof_status = RoofStatus.CLOSED))

\* The client has closed the stream while the roof was opening; the server
\* has disconnected, the roof is OPEN, and the LAST has been dropped.
C38_Witness ==
  \E c \in DOMAIN cmds :
    /\ cmds[c].key = "openRoof"
    /\ reader_eof
    /\ writer_closing
    /\ read_loop_task = "done"
    /\ pc[c] = "done"
    /\ roof_status = RoofStatus.OPEN
    /\ Responses(c) = << CommandResponse.ACK >>

\* C39: the stream lock is held only by a call of run_command that has not
\* ended: a call that has written, has failed with ConnectionError or has
\* timed out has released it, and a later call can take it.
C39_LockReleased ==
  client.state = "client" =>
    \/ client.stream_lock = 0
    \/ /\ client.stream_lock \in DOMAIN client.commands
       /\ client.commands[client.stream_lock].outcome = "drain"

\* A call has timed out in its drain, the next has failed with
\* ConnectionError, and a later call has taken the lock and has written its
\* line; the lock is free.
C39_Witness ==
  /\ client.state = "client"
  /\ Len(client.commands) = 3
  /\ client.commands[1].outcome = "TimeoutError"
  /\ client.commands[2].outcome = "ConnectionError"
  /\ client.commands[3].outcome = "written"
  /\ client.outbound = << client.commands[1].command_id, client.commands[3].command_id >>
  /\ client.stream_lock = 0

\* ------------------------------------------------- one session per client

\* Command c started a telemetry loop of the kind that writes msg.
StartedLoopOf(c, msg) ==
  /\ loop[c] # "none"
  /\ \/ IsStatus(msg) /\ cmds[c].key = "resume"
     \/ IsDataProducts(msg) /\ cmds[c].key # "resume"

\* C40: a response and a telemetry message are only ever written to the
\* client session that sent the command or started the loop: among the
\* messages the client served now has received, every response carries the
\* command_id of a line this client sent, and every status and every batch
\* comes from a loop that a line of this client started.
C40_OnlyToItsSession ==
  \A i \in session.first .. Len(written) :
    /\ IsResponse(written[i]) => written[i].command_id >= session.sent
    /\ ~IsResponse(written[i]) =>
         \E c \in session.sent .. Len(cmds) : StartedLoopOf(c, written[i])

\* A second client is served while a handler of the first client's command
\* has not finished.
C40_HandlerOutlivesSession ==
  /\ session.number = 2
  /\ connected
  /\ \E c \in 1 .. session.sent - 1 : pc[c] \in {"sleeping", "woken"}

\* The second client has received a response to a command of the first.
C40_ForeignResponse ==
  /\ session.number = 2
  /\ \E i \in session.first .. Len(written) :
       IsResponse(written[i]) /\ written[i].command_id < session.sent

\* The second client has received telemetry though it has sent nothing.
C40_ForeignTelemetry ==
  /\ session.number = 2
  /\ session.sent > Len(cmds)
  /\ \E i \in session.first .. Len(written) : ~IsResponse(written[i])

====
